---------------------------- MODULE Spec2Model ----------------------------
(***************************************************************************)
(* Eye gaze tracker: Kalman smoothing (gaze_tracker.py), the calibration   *)
(* tool (calibration.py) and the assessment tool's calibration handling    *)
(* (visual_assessment.py).                                                 *)
(*                                                                         *)
(* Numbers.  A float is modelled as a fixed-point integer counting units   *)
(* of 1/ONE (ONE = 2^14).  Sums and differences are exact; products and    *)
(* quotients are rounded to the nearest unit (FixMul, FixDiv).  The        *)
(* conversion to single precision that both filters apply to a measurement *)
(* (np.array(m, dtype=np.float32)) keeps 24 significant bits, ties to      *)
(* even, exactly as IEEE-754 binary32 does on a value n/2^14.              *)
(***************************************************************************)
EXTENDS Integers, Sequences, FiniteSets, TLC

VARIABLES
    kf,        \* a KalmanFilter2D instance
    akf,       \* an AdaptiveKalmanFilter2D instance
    fresh_kf,  \* a KalmanFilter2D constructed when kf was last reset
    fresh_akf, \* an AdaptiveKalmanFilter2D constructed when akf was last reset
    fcall,     \* the last call made on kf or akf: its argument and result
    fcalls,    \* number of calls made on the two filters
    scall,     \* the last call of a stream fed to kf and akf alike
    slog,      \* what the stream has done since the filters were uninitialized
    ncall      \* the last evaluation of the adaptive measurement noise

streamVars == <<scall, slog>>

filterVars == <<kf, akf, fresh_kf, fresh_akf, fcall, fcalls, streamVars, ncall>>

VARIABLES
    trk,       \* an EyeGazeTracker instance
    gaze,      \* the GazeData returned by the last process_frame
    tcall,     \* the last call made on the tracker
    tcalls     \* number of calls made on the tracker

trackerVars == <<trk, gaze, tcall, tcalls>>

VARIABLES
    tool,      \* a CalibrationTool used directly
    vat,       \* a VisualAssessmentTool: its screen size and its calibrator
    files,     \* the calibration file "gaze_calibration.npz"
    session,   \* the run_calibration call in progress, if any
    ccall,     \* the last call completed on tool or vat, and its result
    ccalls,    \* number of calls made on tool and vat
    runs       \* number of calibration sessions started

VARIABLES
    quick,     \* the QuickCalibration.run call in progress, if any
    qcall,     \* the last QuickCalibration.run completed, and its result
    assess,    \* the run_session call of vat in progress, if any
    acall      \* the last iteration of the loop of run_session

quickVars == <<quick, qcall>>

sessVars == <<assess, acall>>

assessVars == <<quickVars, sessVars>>

calibVars == <<tool, vat, files, session, ccall, ccalls, runs, assessVars>>

vars == <<filterVars, trackerVars, calibVars>>

\* ------------------------------------------------------------------------
\* Fixed-point arithmetic
\* ------------------------------------------------------------------------

\* One unit of the fixed-point scale: the float 1.0.
ONE == 2 ^ 14

\* sqrt(ONE), used when splitting products and quotients.
HALFBITS == 2 ^ 7

\* The element of a one-element set.  Only({ e(v) : v \in {d} }) is e with d
\* for v, d evaluated once: the idiom for a local variable of the code.  A
\* nest of them reads from the bottom up, in the order of the code's
\* statements.
Only(S) == CHOOSE v \in S : TRUE

Abs(x) == IF x < 0 THEN -x ELSE x

Sgn(x) == IF x < 0 THEN -1 ELSE 1

Max(a, b) == IF a >= b THEN a ELSE b

Min(a, b) == IF a <= b THEN a ELSE b

\* a * b on magnitudes, split so that no intermediate exceeds 32 bits.
MulMag(a, b) ==
    LET ah == a \div ONE
        al == a % ONE
        bh == b \div ONE
        bl == b % ONE
    IN  ah * bh * ONE + ah * bl + al * bh + ((al * bl + ONE \div 2) \div ONE)

\* Product of two fixed-point numbers, rounded to the nearest unit.
FixMul(a, b) == Sgn(a) * Sgn(b) * MulMag(Abs(a), Abs(b))

\* a / b on magnitudes (b > 0), long division in two 7-bit steps.
DivMag(a, b) ==
    LET q0 == a \div b
        r0 == a % b
        q1 == (r0 * HALFBITS) \div b
        r1 == (r0 * HALFBITS) % b
        q2 == (r1 * HALFBITS + b \div 2) \div b
    IN  q0 * ONE + q1 * HALFBITS + q2

\* Quotient of two fixed-point numbers (b # 0), rounded to the nearest unit.
FixDiv(a, b) == Sgn(a) * Sgn(b) * DivMag(Abs(a), Abs(b))

\* Python's int(): truncation toward zero of num/den (den > 0).
TruncDiv(num, den) == IF num >= 0 THEN num \div den ELSE -((-num) \div den)

\* Largest r with r * r <= n, by bisection on lo..hi.
RECURSIVE SqrtBisect(_, _, _)
SqrtBisect(n, lo, hi) ==
    IF lo >= hi THEN lo
    ELSE LET mid == (lo + hi + 1) \div 2
         IN  IF mid * mid <= n THEN SqrtBisect(n, mid, hi)
             ELSE SqrtBisect(n, lo, mid - 1)

ISqrt(n) == SqrtBisect(n, 0, Min(n, 46340))

\* Number of halvings that bring m below 2^15, so that squares fit 32 bits.
RECURSIVE ShiftFor(_)
ShiftFor(m) == IF m < 32768 THEN 1 ELSE 2 * ShiftFor(m \div 2)

\* sqrt(a^2 + b^2) of two fixed-point numbers.
Hypot(a, b) ==
    LET s == ShiftFor(Max(Abs(a), Abs(b)))
        x == Abs(a) \div s
        y == Abs(b) \div s
    IN  ISqrt(x * x + y * y) * s

\* np.clip(x, lo, hi) and max(lo, min(hi, x)).
Clip(x, lo, hi) == Max(lo, Min(hi, x))

\* The power of two q such that mag / q has exactly 24 significant bits.
RECURSIVE UlpOf(_)
UlpOf(mag) == IF mag < 16777216 THEN 1 ELSE 2 * UlpOf(mag \div 2)

\* float32(x): round to 24 significant bits, ties to even.
ToFloat32(n) ==
    LET mag  == Abs(n)
        q    == UlpOf(mag)
        r    == mag % q
        base == mag - r
        up   == (2 * r > q) \/ (2 * r = q /\ (base \div q) % 2 = 1)
    IN  Sgn(n) * (IF up THEN base + q ELSE base)

Float32Vec(m) == <<ToFloat32(m[1]), ToFloat32(m[2])>>

\* ------------------------------------------------------------------------
\* Double precision, for the screen-point smoothing
\*
\* The smoothing of process_frame is computed on Python floats and its
\* result is truncated by int(), so its roundings decide the pixel.  A
\* non-negative double that is a multiple of 2^-54 below 2^18 is modelled
\* exactly, as <<i, h, m, l>> standing for i + h/2^18 + m/2^36 + l/2^54
\* with h, m, l in 0 .. 2^18 - 1; a double with its sign is a record
\* [neg, mag].  Every value the smoothing meets is such a number when the
\* smoothing factor is one and the pixels are below 2^11.
\* ------------------------------------------------------------------------

LIMB == 2 ^ 18

WideOne == <<1, 0, 0, 0>>

\* Carries (or borrows) moved upwards until h, m, l are in 0 .. LIMB - 1.
WNorm(w) ==
    Only({ Only({ <<w[1] + h1 \div LIMB, h1 % LIMB, m1 % LIMB, w[4] % LIMB>>
                  : h1 \in {w[2] + m1 \div LIMB} })
           : m1 \in {w[3] + w[4] \div LIMB} })

\* Exact w * k for an integer 0 <= k < 2^11, exact a + b, exact a - b
\* for a >= b, and a < b.
WScale(w, k) == WNorm(<<w[1] * k, w[2] * k, w[3] * k, w[4] * k>>)

WPlus(a, b) == WNorm(<<a[1] + b[1], a[2] + b[2], a[3] + b[3], a[4] + b[4]>>)

WMinus(a, b) == WNorm(<<a[1] - b[1], a[2] - b[2], a[3] - b[3], a[4] - b[4]>>)

WLess(a, b) ==
    \/ a[1] < b[1]
    \/ a[1] = b[1] /\ a[2] < b[2]
    \/ a[1] = b[1] /\ a[2] = b[2] /\ a[3] < b[3]
    \/ a[1] = b[1] /\ a[2] = b[2] /\ a[3] = b[3] /\ a[4] < b[4]

RECURSIVE BitLen(_)
BitLen(n) == IF n = 0 THEN 0 ELSE 1 + BitLen(n \div 2)

\* The bits below the 53 significant ones: none below 1/2, one in
\* [1/2, 1), and one more for every bit of the integer part.
ExcessBits(w) ==
    IF w[1] > 0 THEN BitLen(w[1]) + 1
    ELSE IF w[2] >= LIMB \div 2 THEN 1 ELSE 0

\* Rounding of an exact result to a double: 53 significant bits, to
\* nearest, ties to even.
WRound(w) ==
    Only({ Only({
        WNorm(<<w[1], w[2], w[3],
                w[4] - r + (IF \/ 2 * r > q
                               \/ 2 * r = q /\ (w[4] \div q) % 2 = 1
                            THEN q ELSE 0)>>)
        : r \in {w[4] % q} })
        : q \in {2 ^ ExcessBits(w)} })

\* The exact sum of two signed numbers.
SignedSum(x, y) ==
    IF x.neg = y.neg THEN [neg |-> x.neg, mag |-> WPlus(x.mag, y.mag)]
    ELSE IF WLess(x.mag, y.mag) THEN [neg |-> y.neg, mag |-> WMinus(y.mag, x.mag)]
    ELSE [neg |-> x.neg, mag |-> WMinus(x.mag, y.mag)]

\* The exact product of a non-negative number with an integer.
SignedProduct(w, k) == [neg |-> k < 0, mag |-> WScale(w, Abs(k))]

\* Python's a * k for a float a >= 0 and an int k, a + b for two floats,
\* and int(a).
DblMul(w, k) == [SignedProduct(w, k) EXCEPT !.mag = WRound(@)]

DblAdd(x, y) == [SignedSum(x, y) EXCEPT !.mag = WRound(@)]

DblInt(x) == IF x.neg THEN -x.mag[1] ELSE x.mag[1]

\* ------------------------------------------------------------------------
\* Small matrices: a matrix is a tuple of rows
\* ------------------------------------------------------------------------

Vec2(f(_)) == <<f(1), f(2)>>

Vec4(f(_)) == <<f(1), f(2), f(3), f(4)>>

Mat22(g(_, _)) == <<Vec2(LAMBDA j : g(1, j)), Vec2(LAMBDA j : g(2, j))>>

Mat24(g(_, _)) == <<Vec4(LAMBDA j : g(1, j)), Vec4(LAMBDA j : g(2, j))>>

Mat42(g(_, _)) ==
    <<Vec2(LAMBDA j : g(1, j)), Vec2(LAMBDA j : g(2, j)),
      Vec2(LAMBDA j : g(3, j)), Vec2(LAMBDA j : g(4, j))>>

Mat44(g(_, _)) ==
    <<Vec4(LAMBDA j : g(1, j)), Vec4(LAMBDA j : g(2, j)),
      Vec4(LAMBDA j : g(3, j)), Vec4(LAMBDA j : g(4, j))>>

\* np.eye(4) * v and np.eye(2) * v
Eye4(v) == Mat44(LAMBDA i, j : IF i = j THEN v ELSE 0)

Eye2(v) == Mat22(LAMBDA i, j : IF i = j THEN v ELSE 0)

\* State transition matrix of the constant velocity model (entries 0/1).
F == << <<1, 0, 1, 0>>, <<0, 1, 0, 1>>, <<0, 0, 1, 0>>, <<0, 0, 0, 1>> >>

\* F.T
Ft == Mat44(LAMBDA i, j : F[j][i])

\* Measurement matrix: position only (entries 0/1).
H == << <<1, 0, 0, 0>>, <<0, 1, 0, 0>> >>

\* H.T
Ht == Mat42(LAMBDA i, j : H[j][i])

\* Row i of A times column j of B over an inner dimension of 4; exact when
\* one of the two matrices has 0/1 entries.
Dot4(A, B, i, j) ==
    A[i][1] * B[1][j] + A[i][2] * B[2][j] + A[i][3] * B[3][j] + A[i][4] * B[4][j]

\* F @ P and (F @ P) @ F.T
MatMulFP(P) == Mat44(LAMBDA i, j : Dot4(F, P, i, j))

MatMulFt(A) == Mat44(LAMBDA i, j : Dot4(A, Ft, i, j))

\* H @ P, (H @ P) @ H.T and P @ H.T
MatMulHP(P) == Mat24(LAMBDA i, j : Dot4(H, P, i, j))

MatMulHt2(A) == Mat22(LAMBDA i, j : Dot4(A, Ht, i, j))

MatMulPHt(P) == Mat42(LAMBDA i, j : Dot4(P, Ht, i, j))

\* A @ B for fixed-point A (4 x 2) and B (2 x 2).
FixMatMul2(A, B) ==
    Mat42(LAMBDA i, j : FixMul(A[i][1], B[1][j]) + FixMul(A[i][2], B[2][j]))

\* A @ B for fixed-point A and B (4 x 4).
FixMatMul4(A, B) ==
    Mat44(LAMBDA i, j : FixMul(A[i][1], B[1][j]) + FixMul(A[i][2], B[2][j])
                      + FixMul(A[i][3], B[3][j]) + FixMul(A[i][4], B[4][j]))

MatAdd4(A, B) == Mat44(LAMBDA i, j : A[i][j] + B[i][j])

MatAdd2(A, B) == Mat22(LAMBDA i, j : A[i][j] + B[i][j])

MatSub4(A, B) == Mat44(LAMBDA i, j : A[i][j] - B[i][j])

\* F @ s for a state vector s.
MatVecF(s) ==
    Vec4(LAMBDA i : F[i][1] * s[1] + F[i][2] * s[2] + F[i][3] * s[3] + F[i][4] * s[4])

\* H @ s for a state vector s.
MatVecH(s) ==
    Vec2(LAMBDA i : H[i][1] * s[1] + H[i][2] * s[2] + H[i][3] * s[3] + H[i][4] * s[4])

\* np.linalg.inv of a 2 x 2 matrix with S[1][1] # 0, by elimination as
\* LAPACK does it: l and u are the factors' off-diagonal entries and d is
\* the second pivot.  (The determinant of S is below one unit of the
\* scale once the covariance has settled, the pivots are not.)
Inv2(S) ==
    LET l == FixDiv(S[2][1], S[1][1])
        u == FixDiv(S[1][2], S[1][1])
        d == S[2][2] - FixMul(l, S[1][2])
    IN  << <<FixDiv(ONE, S[1][1]) + FixDiv(FixMul(u, l), d), -FixDiv(u, d)>>,
           <<-FixDiv(l, d), FixDiv(ONE, d)>> >>

\* K @ H for a 4 x 2 gain K (H has 0/1 entries: exact).
MatMulKH(K) == Mat44(LAMBDA i, j : K[i][1] * H[1][j] + K[i][2] * H[2][j])

\* ------------------------------------------------------------------------
\* KalmanFilter2D (gaze_tracker.py)
\* ------------------------------------------------------------------------

\* Default process noise 1e-4 and measurement noise 1e-2, in units of 1/ONE.
DefaultProcessNoise == 2

DefaultMeasurementNoise == 164

\* KalmanFilter2D.__init__
NewKalman(q, r) ==
    [state       |-> <<0, 0, 0, 0>>,
     P           |-> Eye4(ONE),
     Q           |-> Eye4(q),
     R           |-> Eye2(r),
     initialized |-> FALSE]

\* state[:2]
Pos(f) == <<f.state[1], f.state[2]>>

\* PredictCov without the right factor: F P + Q.
PredictCovOneSided(P, Q) ==
    MatAdd4(MatMulFP(P), Q)

\* F @ P @ F.T + Q
PredictCov(P, Q) ==
    Only({ MatAdd4(MatMulFt(FP), Q) : FP \in {MatMulFP(P)} })

\* KalmanFilter2D.predict: the filter afterwards (it returns Pos of it).
KF_predict(f) ==
    IF ~f.initialized THEN f
    ELSE [f EXCEPT !.state = MatVecF(f.state), !.P = PredictCov(f.P, f.Q)]

\* The measurement update shared by both filters, on a predicted filter p
\* with measurement noise R: gain, state and covariance.
KalmanCorrect(p, R, meas) ==
    Only({ Only({ Only({ Only({ Only({
        [p EXCEPT
            !.state = Vec4(LAMBDA i : p.state[i] + FixMul(K[i][1], innovation[1])
                                                 + FixMul(K[i][2], innovation[2])),
            !.P = FixMatMul4(IKH, p.P),
            !.R = R]
        : IKH        \in {MatSub4(Eye4(ONE), MatMulKH(K))} })
        : K          \in {FixMatMul2(MatMulPHt(p.P), Sinv)} })
        : Sinv       \in {Inv2(S)} })
        : S          \in {MatAdd2(MatMulHt2(MatMulHP(p.P)), R)} })
        : innovation \in {<<meas[1] - MatVecH(p.state)[1],
                            meas[2] - MatVecH(p.state)[2]>>} })

\* FirstMeasurement with the measurement stored as the velocity too.
FirstMeasurementMoving(f, meas) ==
    [filter |-> [f EXCEPT !.state = <<meas[1], meas[2], meas[1], meas[2]>>,
                          !.initialized = TRUE],
     ret    |-> meas]

\* FirstMeasurement without the assignment to self.initialized.
FirstMeasurementUnmarked(f, meas) ==
    [filter |-> [f EXCEPT !.state = <<meas[1], meas[2], f.state[3], f.state[4]>>],
     ret    |-> meas]

\* The first measurement: position from the measurement, filter initialized,
\* the (single precision) measurement returned unfiltered.
FirstMeasurement(f, meas) ==
    [filter |-> [f EXCEPT !.state = <<meas[1], meas[2], f.state[3], f.state[4]>>,
                          !.initialized = TRUE],
     ret    |-> meas]

\* KalmanFilter2D.update: the filter afterwards and the returned position.
KF_update(f, m) ==
    Only({
        IF ~f.initialized THEN FirstMeasurement(f, meas)
        ELSE Only({ [filter |-> g, ret |-> Pos(g)]
                    : g \in {KalmanCorrect(KF_predict(f), f.R, meas)} })
        : meas \in {Float32Vec(m)} })

\* KalmanFilter2D.reset
KF_reset(f) ==
    [f EXCEPT !.state = <<0, 0, 0, 0>>, !.P = Eye4(ONE), !.initialized = FALSE]

\* KalmanFilter2D.get_velocity
KF_get_velocity(f) == Hypot(f.state[3], f.state[4])

\* ------------------------------------------------------------------------
\* AdaptiveKalmanFilter2D (gaze_tracker.py)
\* ------------------------------------------------------------------------

\* Defaults of AdaptiveKalmanFilter2D.__init__ in units of 1/ONE:
\* thresholds 0.02 and 0.15, multipliers 3.0 and 0.3.
LowVelocityThreshold == 328

HighVelocityThreshold == 2458

DwellMeasurementMultiplier == 49152

RapidMeasurementMultiplier == 4915

\* velocity_history_size
VelocityHistorySize == 5

\* AdaptiveKalmanFilter2D.__init__
NewAdaptiveWith(q, r, low, high, dwell, rapid) ==
    [state                        |-> <<0, 0, 0, 0>>,
     P                            |-> Eye4(ONE),
     Q                            |-> Eye4(q),
     R                            |-> Eye2(r),
     initialized                  |-> FALSE,
     base_process_noise           |-> q,
     base_measurement_noise       |-> r,
     low_velocity_threshold       |-> low,
     high_velocity_threshold      |-> high,
     dwell_measurement_multiplier |-> dwell,
     rapid_measurement_multiplier |-> rapid,
     velocity_history             |-> << >>,
     current_measurement_noise    |-> r,
     current_process_noise        |-> q]

\* AdaptiveKalmanFilter2D(q, r): the other arguments at their defaults.
NewAdaptive(q, r) ==
    NewAdaptiveWith(q, r, LowVelocityThreshold, HighVelocityThreshold,
                    DwellMeasurementMultiplier, RapidMeasurementMultiplier)

RECURSIVE SeqSum(_)
SeqSum(s) == IF s = << >> THEN 0 ELSE Head(s) + SeqSum(Tail(s))

\* np.mean of a non-empty sequence of non-negative numbers.
Mean(s) == (SeqSum(s) + Len(s) \div 2) \div Len(s)

\* AdaptiveKalmanFilter2D._get_velocity
AKF_get_velocity(f) == Hypot(f.state[3], f.state[4])

\* AdaptiveKalmanFilter2D._get_smoothed_velocity
AKF_get_smoothed_velocity(f) ==
    IF f.velocity_history = << >> THEN AKF_get_velocity(f)
    ELSE Mean(f.velocity_history)

\* _update_velocity_history dropping the newest entry instead of the oldest.
AKF_update_velocity_history_dropping_newest(f) ==
    LET h == Append(f.velocity_history, AKF_get_velocity(f))
    IN  [f EXCEPT !.velocity_history =
            IF Len(h) > VelocityHistorySize THEN SubSeq(h, 1, VelocityHistorySize)
            ELSE h]

\* AdaptiveKalmanFilter2D._update_velocity_history
AKF_update_velocity_history(f) ==
    LET h == Append(f.velocity_history, AKF_get_velocity(f))
    IN  [f EXCEPT !.velocity_history =
            IF Len(h) > VelocityHistorySize THEN Tail(h) ELSE h]

\* The multiplier with the smoothstep left out: a straight line between
\* the thresholds.
MeasurementMultiplierLinear(f, velocity) ==
    IF velocity <= f.low_velocity_threshold THEN f.dwell_measurement_multiplier
    ELSE IF velocity >= f.high_velocity_threshold THEN f.rapid_measurement_multiplier
    ELSE LET t == FixDiv(velocity - f.low_velocity_threshold,
                         f.high_velocity_threshold - f.low_velocity_threshold)
         IN  f.dwell_measurement_multiplier
             + FixMul(t, f.rapid_measurement_multiplier - f.dwell_measurement_multiplier)

\* The multiplier with the interpolation left out: rapid above the low
\* threshold.
MeasurementMultiplierSwitching(f, velocity) ==
    IF velocity <= f.low_velocity_threshold THEN f.dwell_measurement_multiplier
    ELSE f.rapid_measurement_multiplier

\* The multiplier chosen by _get_adaptive_measurement_noise for a velocity.
MeasurementMultiplier(f, velocity) ==
    IF velocity <= f.low_velocity_threshold THEN f.dwell_measurement_multiplier
    ELSE IF velocity >= f.high_velocity_threshold THEN f.rapid_measurement_multiplier
    ELSE LET t == FixDiv(velocity - f.low_velocity_threshold,
                         f.high_velocity_threshold - f.low_velocity_threshold)
             smooth_t == FixMul(FixMul(t, t), 3 * ONE - 2 * t)
         IN  f.dwell_measurement_multiplier
             + FixMul(smooth_t, f.rapid_measurement_multiplier
                                - f.dwell_measurement_multiplier)

\* AdaptiveKalmanFilter2D._get_adaptive_measurement_noise: the scalar stored
\* in current_measurement_noise (R is the identity times it).
AKF_adaptive_measurement_noise(f) ==
    Only({ FixMul(f.base_measurement_noise, multiplier)
           : multiplier \in {MeasurementMultiplier(f, AKF_get_smoothed_velocity(f))} })

\* The factor np.clip(velocity / high_threshold, 0.5, 2.0).
VelocityFactor(f, velocity) ==
    Clip(FixDiv(velocity, f.high_velocity_threshold), ONE \div 2, 2 * ONE)

\* AdaptiveKalmanFilter2D._get_adaptive_process_noise: the scalar stored in
\* current_process_noise (Q is the identity times it).
AKF_adaptive_process_noise(f) ==
    Only({ FixMul(f.base_process_noise, factor)
           : factor \in {VelocityFactor(f, AKF_get_smoothed_velocity(f))} })

\* AdaptiveKalmanFilter2D.predict
AKF_predict(f) ==
    IF ~f.initialized THEN f
    ELSE Only({ [f EXCEPT !.current_process_noise = q,
                          !.Q = Eye4(q),
                          !.state = MatVecF(f.state),
                          !.P = PredictCov(f.P, Eye4(q))]
                : q \in {AKF_adaptive_process_noise(f)} })

\* AKF_update taking the measurement noise from the distance between the
\* measurement and the predicted position instead of the smoothed velocity.
AKF_updateNoiseFromInnovation(f, m) ==
    Only({
        IF ~f.initialized THEN FirstMeasurement(f, meas)
        ELSE Only({ Only({ Only({ Only({
                 [filter |-> g, ret |-> Pos(g)]
                 : g \in {AKF_update_velocity_history(c)} })
                 : c \in {KalmanCorrect([p EXCEPT !.current_measurement_noise = r],
                                        Eye2(r), meas)} })
                 : r \in {FixMul(p.base_measurement_noise,
                                 MeasurementMultiplier(p, Hypot(meas[1] - Pos(p)[1],
                                                                meas[2] - Pos(p)[2])))} })
                 : p \in {AKF_predict(f)} })
        : meas \in {Float32Vec(m)} })

\* AdaptiveKalmanFilter2D.update
AKF_update(f, m) ==
    Only({
        IF ~f.initialized THEN FirstMeasurement(f, meas)
        ELSE Only({ Only({ Only({ Only({
                 [filter |-> g, ret |-> Pos(g)]
                 : g \in {AKF_update_velocity_history(c)} })
                 : c \in {KalmanCorrect([p EXCEPT !.current_measurement_noise = r],
                                        Eye2(r), meas)} })
                 : r \in {AKF_adaptive_measurement_noise(p)} })
                 : p \in {AKF_predict(f)} })
        : meas \in {Float32Vec(m)} })

\* AKF_reset without the assignment to self.velocity_history.
AKF_resetKeepingHistory(f) ==
    [f EXCEPT !.state = <<0, 0, 0, 0>>,
              !.P = Eye4(ONE),
              !.initialized = FALSE,
              !.current_measurement_noise = f.base_measurement_noise,
              !.current_process_noise = f.base_process_noise]

\* AdaptiveKalmanFilter2D.reset
AKF_reset(f) ==
    [f EXCEPT !.state = <<0, 0, 0, 0>>,
              !.P = Eye4(ONE),
              !.initialized = FALSE,
              !.velocity_history = << >>,
              !.current_measurement_noise = f.base_measurement_noise,
              !.current_process_noise = f.base_process_noise]

\* AdaptiveKalmanFilter2D.is_dwelling
AKF_is_dwelling(f) == AKF_get_smoothed_velocity(f) <= f.low_velocity_threshold

\* ------------------------------------------------------------------------
\* EyeGazeTracker (gaze_tracker.py)
\* ------------------------------------------------------------------------

\* An optional 2-vector: None, or Some(v).
None == [some |-> FALSE, v |-> <<0, 0>>]

Some(v) == [some |-> TRUE, v |-> v]

\* Face mesh landmark indices.
LEFT_EYE_OUTER == 33

LEFT_EYE_INNER == 133

LEFT_IRIS_CENTER == 468

RIGHT_EYE_OUTER == 362

RIGHT_EYE_INNER == 263

RIGHT_IRIS_CENTER == 473

LEFT_EYE_TOP == 159

LEFT_EYE_BOTTOM == 145

RIGHT_EYE_TOP == 386

RIGHT_EYE_BOTTOM == 374

\* blink_threshold, in pixels.
BlinkThreshold == 5

\* Confidence 0.7 of a one-eye estimate, in units of 1/ONE.
OneEyeConfidence == 11469

\* EyeGazeTracker.__init__: the arguments are stored as given.
NewTracker(width, height, alpha, sx, sy, ox, oy) ==
    [screen_width      |-> width,
     screen_height     |-> height,
     smoothing_factor  |-> alpha,
     sensitivity_x     |-> sx,
     sensitivity_y     |-> sy,
     offset_x          |-> ox,
     offset_y          |-> oy,
     left_kalman       |-> NewKalman(DefaultProcessNoise, DefaultMeasurementNoise),
     right_kalman      |-> NewKalman(DefaultProcessNoise, DefaultMeasurementNoise),
     combined_kalman   |-> NewKalman(DefaultProcessNoise, DefaultMeasurementNoise),
     prev_screen_point |-> None]

\* GazeData(): every field absent, confidence 0.0.
EmptyGazeData ==
    [left_gaze |-> None, right_gaze |-> None, combined_gaze |-> None,
     screen_point |-> None, confidence |-> 0]

\* landmarks[idx] exists (otherwise indexing raises IndexError).
HasLandmark(lm, idx) == idx < lm.n

\* The landmarks of one eye, in whole pixels of the frame.
EyeOf(lm, outerIdx) == IF outerIdx = LEFT_EYE_OUTER THEN lm.left ELSE lm.right

\* EyeGazeTracker._detect_blink: <<left_blink, right_blink>>.
DetectBlink(lm) ==
    IF ~(/\ HasLandmark(lm, LEFT_EYE_TOP) /\ HasLandmark(lm, LEFT_EYE_BOTTOM)
         /\ HasLandmark(lm, RIGHT_EYE_TOP) /\ HasLandmark(lm, RIGHT_EYE_BOTTOM))
    THEN <<FALSE, FALSE>>
    ELSE <<Abs(lm.left.bottom[2] - lm.left.top[2]) < BlinkThreshold,
           Abs(lm.right.bottom[2] - lm.right.top[2]) < BlinkThreshold>>

\* EyeGazeTracker._get_iris_position: the optional gaze vector of one eye.
\* The iris position used by _get_iris_position, in units of 1/ONE pixel:
\* the iris landmark, or the mean of the four contour landmarks.
IrisPx(e, hasIris) ==
    IF hasIris THEN <<e.iris[1] * ONE, e.iris[2] * ONE>>
    ELSE <<((e.outer[1] + e.inner[1] + e.top[1] + e.bottom[1]) * ONE) \div 4,
           ((e.outer[2] + e.inner[2] + e.top[2] + e.bottom[2]) * ONE) \div 4>>

\* GazeComponent without the clip.
GazeComponentUnclipped(displacement, divisor, sensitivity, offset) ==
    FixMul(FixDiv(displacement, divisor), sensitivity) + offset

\* One component of the gaze vector: displacement over a fraction of the
\* eye width, times the sensitivity, plus the offset, clipped to [-1, 1].
GazeComponent(displacement, divisor, sensitivity, offset) ==
    Only({ Clip(g, -ONE, ONE)
           : g \in {FixMul(FixDiv(displacement, divisor), sensitivity) + offset} })

\* EyeGazeTracker._get_iris_position: the optional gaze vector of one eye.
GetIrisPosition(t, lm, outerIdx, innerIdx, irisIdx) ==
    IF ~(HasLandmark(lm, outerIdx) /\ HasLandmark(lm, innerIdx)) THEN None
    ELSE
    Only({ Only({
        IF eye_width < ONE THEN None
        ELSE IF /\ irisIdx >= lm.n
                /\ ~(IF outerIdx = LEFT_EYE_OUTER
                     THEN HasLandmark(lm, LEFT_EYE_TOP) /\ HasLandmark(lm, LEFT_EYE_BOTTOM)
                     ELSE HasLandmark(lm, RIGHT_EYE_TOP) /\ HasLandmark(lm, RIGHT_EYE_BOTTOM))
        THEN None
        ELSE Only({
            Some(<<GazeComponent(iris_px[1] - ((e.outer[1] + e.inner[1]) * ONE) \div 2,
                                 eye_width \div 2, t.sensitivity_x, t.offset_x),
                   GazeComponent(iris_px[2] - ((e.outer[2] + e.inner[2]) * ONE) \div 2,
                                 eye_width \div 4, t.sensitivity_y, t.offset_y)>>)
            : iris_px \in {IrisPx(e, irisIdx < lm.n)} })
        : eye_width \in {Hypot((e.inner[1] - e.outer[1]) * ONE,
                               (e.inner[2] - e.outer[2]) * ONE)} })
        : e \in {EyeOf(lm, outerIdx)} })

\* int((g + 1) / 2 * dimension)
LinearMap(g, dimension) == TruncDiv((g + ONE) * dimension, 2 * ONE)

\* int(alpha * new + (1 - alpha) * previous) in Python floats: the
\* complement, the two products and the sum are each rounded to a double.
Smooth(alpha, new, previous) ==
    DblInt(DblAdd(DblMul(alpha, new),
                  DblMul(WRound(WMinus(WideOne, alpha)), previous)))

\* The two eyes, with the landmark indices process_frame passes for each.
Eyes == {"left", "right"}

OuterIdx(eye) == IF eye = "left" THEN LEFT_EYE_OUTER ELSE RIGHT_EYE_OUTER

InnerIdx(eye) == IF eye = "left" THEN LEFT_EYE_INNER ELSE RIGHT_EYE_INNER

IrisIdx(eye) == IF eye = "left" THEN LEFT_IRIS_CENTER ELSE RIGHT_IRIS_CENTER

\* ProcessEye resetting the filter of an eye that gave no vector.
ProcessEyeResetting(t, lm, blink, kalman, outerIdx, innerIdx, irisIdx) ==
    Only({
        IF raw.some
        THEN Only({ [filter |-> u.filter, gaze |-> Some(u.ret)]
                    : u \in {KF_update(kalman, raw.v)} })
        ELSE [filter |-> KF_reset(kalman), gaze |-> None]
        : raw \in {IF blink THEN None
                   ELSE GetIrisPosition(t, lm, outerIdx, innerIdx, irisIdx)} })

\* One eye of process_frame: the eye's filter afterwards and its vector.
ProcessEye(t, lm, blink, kalman, outerIdx, innerIdx, irisIdx) ==
    Only({
        IF raw.some
        THEN Only({ [filter |-> u.filter, gaze |-> Some(u.ret)]
                    : u \in {KF_update(kalman, raw.v)} })
        ELSE [filter |-> kalman, gaze |-> None]
        : raw \in {IF blink THEN None
                   ELSE GetIrisPosition(t, lm, outerIdx, innerIdx, irisIdx)} })

\* CombineGaze passing a one-eye estimate through the combined filter.
CombineGazeFilteringOneEye(combined_kalman, left, right) ==
    IF left.some \/ right.some
    THEN Only({ [filter |-> u.filter, gaze |-> Some(u.ret),
                 confidence |-> IF left.some /\ right.some THEN ONE
                                ELSE OneEyeConfidence]
                : u \in {KF_update(combined_kalman,
                                   IF left.some /\ right.some
                                   THEN <<(left.v[1] + right.v[1]) \div 2,
                                          (left.v[2] + right.v[2]) \div 2>>
                                   ELSE IF left.some THEN left.v ELSE right.v)} })
    ELSE [filter |-> combined_kalman, gaze |-> None, confidence |-> 0]

\* CombineGaze reporting full confidence for a one-eye estimate.
CombineGazeOverconfident(combined_kalman, left, right) ==
    IF left.some /\ right.some
    THEN Only({ [filter |-> u.filter, gaze |-> Some(u.ret), confidence |-> ONE]
                : u \in {KF_update(combined_kalman,
                                   <<(left.v[1] + right.v[1]) \div 2,
                                     (left.v[2] + right.v[2]) \div 2>>)} })
    ELSE IF left.some
    THEN [filter |-> combined_kalman, gaze |-> left, confidence |-> ONE]
    ELSE IF right.some
    THEN [filter |-> combined_kalman, gaze |-> right, confidence |-> OneEyeConfidence]
    ELSE [filter |-> combined_kalman, gaze |-> None, confidence |-> 0]

\* The combination step of process_frame: the combined filter afterwards, the
\* combined vector and the confidence.
CombineGaze(combined_kalman, left, right) ==
    IF left.some /\ right.some
    THEN Only({ [filter |-> u.filter, gaze |-> Some(u.ret), confidence |-> ONE]
                : u \in {KF_update(combined_kalman,
                                   <<(left.v[1] + right.v[1]) \div 2,
                                     (left.v[2] + right.v[2]) \div 2>>)} })
    ELSE IF left.some
    THEN [filter |-> combined_kalman, gaze |-> left, confidence |-> OneEyeConfidence]
    ELSE IF right.some
    THEN [filter |-> combined_kalman, gaze |-> right, confidence |-> OneEyeConfidence]
    ELSE [filter |-> combined_kalman, gaze |-> None, confidence |-> 0]

\* The screen mapping step of process_frame: the optional screen point.
MapToScreen(t, combined) ==
    IF ~combined.some THEN None
    ELSE Only({
             IF t.prev_screen_point.some
             THEN Some(<<Smooth(t.smoothing_factor, screen_x, t.prev_screen_point.v[1]),
                         Smooth(t.smoothing_factor, screen_y, t.prev_screen_point.v[2])>>)
             ELSE Some(<<screen_x, screen_y>>)
             : screen_x \in {LinearMap(combined.v[1], t.screen_width)},
               screen_y \in {LinearMap(combined.v[2], t.screen_height)} })

\* EyeGazeTracker.process_frame on a frame whose detection result is fr:
\* the tracker afterwards and the GazeData returned.
ProcessFrame(t, fr) ==
    IF ~fr.face THEN [trk |-> t, gaze |-> EmptyGazeData]
    ELSE
    Only({ Only({ Only({ Only({
        [trk  |-> [t EXCEPT !.left_kalman = l.filter,
                            !.right_kalman = r.filter,
                            !.combined_kalman = c.filter,
                            !.prev_screen_point =
                                IF sp.some THEN sp ELSE t.prev_screen_point],
         gaze |-> [left_gaze |-> l.gaze, right_gaze |-> r.gaze,
                   combined_gaze |-> c.gaze, screen_point |-> sp,
                   confidence |-> c.confidence]]
        : sp \in {MapToScreen(t, c.gaze)} })
        : c \in {CombineGaze(t.combined_kalman, l.gaze, r.gaze)} })
        : l \in {ProcessEye(t, fr.landmarks, blink[1], t.left_kalman,
                            LEFT_EYE_OUTER, LEFT_EYE_INNER, LEFT_IRIS_CENTER)},
          r \in {ProcessEye(t, fr.landmarks, blink[2], t.right_kalman,
                            RIGHT_EYE_OUTER, RIGHT_EYE_INNER, RIGHT_IRIS_CENTER)} })
        : blink \in {DetectBlink(fr.landmarks)} })

\* EyeGazeTracker.reset_filters
ResetFilters(t) ==
    [t EXCEPT !.left_kalman = KF_reset(t.left_kalman),
              !.right_kalman = KF_reset(t.right_kalman),
              !.combined_kalman = KF_reset(t.combined_kalman),
              !.prev_screen_point = None]

\* An optional float argument: absent, or a value.
NoArg == [given |-> FALSE, val |-> 0]

Arg(x) == [given |-> TRUE, val |-> x]

\* EyeGazeTracker.set_sensitivity: clamp to [0.5, 5.0]
SetSensitivity(t, x, y) ==
    [t EXCEPT !.sensitivity_x =
                 IF x.given THEN Max(ONE \div 2, Min(5 * ONE, x.val)) ELSE @,
              !.sensitivity_y =
                 IF y.given THEN Max(ONE \div 2, Min(5 * ONE, y.val)) ELSE @]

\* EyeGazeTracker.set_offset: clamp to [-1, 1]
SetOffset(t, x, y) ==
    [t EXCEPT !.offset_x = IF x.given THEN Max(-ONE, Min(ONE, x.val)) ELSE @,
              !.offset_y = IF y.given THEN Max(-ONE, Min(ONE, y.val)) ELSE @]

\* ------------------------------------------------------------------------
\* CalibrationTool (calibration.py)
\* ------------------------------------------------------------------------

\* CalibrationMode
AFFINE == "affine"

POLYNOMIAL == "polynomial"

\* An attribute that is None, and one that holds a coefficient vector or the
\* stacked matrix.
Absent == [some |-> FALSE, v |-> << >>]

Present(v) == [some |-> TRUE, v |-> v]

\* The grid point of _generate_points in row and column 0..2.
GridPoint(row, col, width, height) ==
    <<width \div 10 + (col * (width - 2 * (width \div 10))) \div 2,
      height \div 10 + (row * (height - 2 * (height \div 10))) \div 2>>

\* CalibrationTool._generate_points: corners and centre for num_points = 5,
\* the 3 x 3 grid for every other num_points.  The margins int(width * 0.1)
\* are exact tenths for the screen sizes used here.
GeneratePoints(num_points, width, height) ==
    LET margin_x == width \div 10
        margin_y == height \div 10
    IN  IF num_points = 5
        THEN << <<margin_x, margin_y>>,
                <<width - margin_x, margin_y>>,
                <<width \div 2, height \div 2>>,
                <<margin_x, height - margin_y>>,
                <<width - margin_x, height - margin_y>> >>
        ELSE << GridPoint(0, 0, width, height), GridPoint(0, 1, width, height),
                GridPoint(0, 2, width, height), GridPoint(1, 0, width, height),
                GridPoint(1, 1, width, height), GridPoint(1, 2, width, height),
                GridPoint(2, 0, width, height), GridPoint(2, 1, width, height),
                GridPoint(2, 2, width, height) >>

\* CalibrationTool.__init__
NewCalibrationTool(num_points, samples_per_point, width, height, mode) ==
    [num_points         |-> num_points,
     samples_per_point  |-> samples_per_point,
     screen_width       |-> width,
     screen_height      |-> height,
     mode               |-> mode,
     calibration_points |-> GeneratePoints(num_points, width, height),
     calibration_data   |-> << >>,
     transform_matrix   |-> Absent,
     transform_x        |-> Absent,
     transform_y        |-> Absent]

\* The stored model of a tool: the mode tag and the three transform
\* attributes.
Model(t) ==
    [mode             |-> t.mode,
     transform_x      |-> t.transform_x,
     transform_y      |-> t.transform_y,
     transform_matrix |-> t.transform_matrix]

\* min_points of _compute_calibration.
MinPoints(mode) == IF mode = POLYNOMIAL THEN 6 ELSE 4

\* Columns of the design matrix A of _compute_calibration, which is the
\* length of each vector np.linalg.lstsq returns.
DesignColumns(mode) == IF mode = POLYNOMIAL THEN 6 ELSE 3

\* np.linalg.lstsq(A, ...) for the two axes: some pair of coefficient
\* vectors (in pixels) with one coefficient per column of A.  Which pair
\* depends on the samples; any of these may come out.
LstsqSolutions(columns) ==
    IF columns = 6
    THEN { << <<960, 900, 40, 30, -20, 10>>, <<540, -30, 500, 10, 25, -15>> >>,
           << <<640, 700, 0, 0, 0, 0>>, <<360, 0, 400, 0, 0, 0>> >> }
    ELSE { << <<960, 900, 40>>, <<540, -30, 500>> >>,
           << <<640, 700, 0>>, <<360, 0, 400>> >> }

\* ComputeCalibration asking for 4 points in either mode.
ComputeCalibrationFourPoints(t, sol) ==
    IF Len(t.calibration_data) < 4 THEN t
    ELSE [t EXCEPT !.transform_x = Present(sol[1]),
                   !.transform_y = Present(sol[2]),
                   !.transform_matrix = Present(<<sol[1], sol[2]>>)]

\* CalibrationTool._compute_calibration, with sol the least squares result:
\* the tool afterwards.  Too few points: it returns before touching anything.
ComputeCalibration(t, sol) ==
    IF Len(t.calibration_data) < MinPoints(t.mode) THEN t
    ELSE [t EXCEPT !.transform_x = Present(sol[1]),
                   !.transform_y = Present(sol[2]),
                   !.transform_matrix = Present(<<sol[1], sol[2]>>)]

\* Whether _compute_calibration fits with the data the tool holds.
Fits(t) == Len(t.calibration_data) >= MinPoints(t.mode)

\* The feature row of gaze_to_screen for gaze g, in units of 1/ONE.
GazeFeatures(mode, g) ==
    IF mode = POLYNOMIAL
    THEN <<ONE, g[1], g[2], FixMul(g[1], g[1]), FixMul(g[2], g[2]), FixMul(g[1], g[2])>>
    ELSE <<ONE, g[1], g[2]>>

RECURSIVE Dot(_, _)
\* np.dot of a coefficient vector (pixels) and a feature row of equal length.
Dot(c, f) == IF c = << >> THEN 0 ELSE Head(c) * Head(f) + Dot(Tail(c), Tail(f))

\* The value gaze_to_screen returns, or the exception it raises.
Returned(v) == [ok |-> TRUE, v |-> v]

Raised == [ok |-> FALSE, v |-> <<0, 0>>]

\* CalibrationTool.gaze_to_screen.  Without a model: the linear mapping,
\* truncated by int().  With one: the dot products, truncated and clamped to
\* the screen; np.dot raises when the vector and the row differ in length.
GazeToScreen(t, g) ==
    IF ~t.transform_matrix.some \/ ~t.transform_x.some \/ ~t.transform_y.some
    THEN Returned(<<TruncDiv((g[1] + ONE) * t.screen_width, 2 * ONE),
                    TruncDiv((g[2] + ONE) * t.screen_height, 2 * ONE)>>)
    ELSE Only({
        IF Len(t.transform_x.v) # Len(features) \/ Len(t.transform_y.v) # Len(features)
        THEN Raised
        ELSE Returned(<<Max(0, Min(t.screen_width - 1,
                                   TruncDiv(Dot(t.transform_x.v, features), ONE))),
                        Max(0, Min(t.screen_height - 1,
                                   TruncDiv(Dot(t.transform_y.v, features), ONE)))>>)
        : features \in {GazeFeatures(t.mode, g)} })

\* A field of the .npz file that is missing, or holds a string.
NoTag == [some |-> FALSE, v |-> ""]

Tag(str) == [some |-> TRUE, v |-> str]

\* No file of that name.
NoFile ==
    [exists |-> FALSE, transform_x |-> Absent, transform_y |-> Absent,
     mode |-> NoTag, screen_width |-> 0, screen_height |-> 0,
     calibration_points |-> << >>, saved |-> FALSE]

\* A file with these fields; saved tells that save_calibration wrote it.
File(tx, ty, mode, width, height, points, saved) ==
    [exists |-> TRUE, transform_x |-> tx, transform_y |-> ty,
     mode |-> mode, screen_width |-> width, screen_height |-> height,
     calibration_points |-> points, saved |-> saved]

\* CalibrationTool.save_calibration: the file afterwards and the value
\* returned.  Nothing is written while transform_matrix is None.
SaveCalibration(t, file) ==
    IF t.transform_matrix.some
    THEN [file |-> File(t.transform_x, t.transform_y, Tag(t.mode),
                        t.screen_width, t.screen_height, t.calibration_points, TRUE),
          ret  |-> TRUE]
    ELSE [file |-> file, ret |-> FALSE]

\* load_calibration keeping the tool's mode when the file has no mode tag.
LoadCalibrationKeepingMode(t, file) ==
    IF ~file.exists \/ ~file.transform_x.some
    THEN [tool |-> t, ret |-> FALSE]
    ELSE IF ~file.transform_y.some
    THEN [tool |-> [t EXCEPT !.transform_x = file.transform_x], ret |-> FALSE]
    ELSE IF Len(file.transform_x.v) # Len(file.transform_y.v)
    THEN [tool |-> [t EXCEPT !.transform_x = file.transform_x,
                             !.transform_y = file.transform_y],
          ret  |-> FALSE]
    ELSE [tool |-> [t EXCEPT
                      !.transform_x = file.transform_x,
                      !.transform_y = file.transform_y,
                      !.transform_matrix =
                          Present(<<file.transform_x.v, file.transform_y.v>>),
                      !.mode =
                          IF file.mode.some
                          THEN (IF file.mode.v = "polynomial" THEN POLYNOMIAL ELSE AFFINE)
                          ELSE t.mode],
          ret  |-> TRUE]

\* CalibrationTool.load_calibration: the tool afterwards and the value
\* returned.  The assignments happen in the order of the code; np.load, a
\* missing field and np.vstack of vectors of different lengths raise, and
\* the handler returns False with what was assigned before.
LoadCalibration(t, file) ==
    IF ~file.exists \/ ~file.transform_x.some
    THEN [tool |-> t, ret |-> FALSE]
    ELSE IF ~file.transform_y.some
    THEN [tool |-> [t EXCEPT !.transform_x = file.transform_x], ret |-> FALSE]
    ELSE IF Len(file.transform_x.v) # Len(file.transform_y.v)
    THEN [tool |-> [t EXCEPT !.transform_x = file.transform_x,
                             !.transform_y = file.transform_y],
          ret  |-> FALSE]
    ELSE [tool |-> [t EXCEPT
                      !.transform_x = file.transform_x,
                      !.transform_y = file.transform_y,
                      !.transform_matrix =
                          Present(<<file.transform_x.v, file.transform_y.v>>),
                      !.mode =
                          IF file.mode.some
                          THEN (IF file.mode.v = "polynomial" THEN POLYNOMIAL ELSE AFFINE)
                          ELSE (IF Len(file.transform_x.v) = 6 THEN POLYNOMIAL ELSE AFFINE)],
          ret  |-> TRUE]

\* ------------------------------------------------------------------------
\* VisualAssessmentTool: its calibrator (visual_assessment.py)
\* ------------------------------------------------------------------------

\* Samples recorded per calibration point.  The code's default is 30; the
\* sessions explored here are scaled down to this many.
SamplesPerPoint == 2

\* self.calibrator = None, and a calibrator that is a CalibrationTool.
NoCalibrator ==
    [some |-> FALSE,
     v    |-> NewCalibrationTool(9, SamplesPerPoint, 0, 0, POLYNOMIAL)]

Calibrator(t) == [some |-> TRUE, v |-> t]

\* VisualAssessmentTool.__init__
NewAssessmentTool(width, height) ==
    [screen_width |-> width, screen_height |-> height, calibrator |-> NoCalibrator]

\* The CalibrationTool VisualAssessmentTool creates: its own screen size,
\* every other argument defaulted (polynomial mode).
AssessmentCalibrator(v, num_points) ==
    NewCalibrationTool(num_points, SamplesPerPoint, v.screen_width, v.screen_height, POLYNOMIAL)

\* VisualAssessmentTool.load_calibration: the tool afterwards and the value
\* returned.
VatLoadCalibration(v, file) ==
    IF ~file.exists THEN [vat |-> v, ret |-> FALSE]
    ELSE Only({
        IF r.ret
        THEN [vat |-> [v EXCEPT !.calibrator = Calibrator(r.tool)], ret |-> TRUE]
        ELSE [vat |-> [v EXCEPT !.calibrator = NoCalibrator], ret |-> FALSE]
        : r \in {LoadCalibration(AssessmentCalibrator(v, 9), file)} })

\* ------------------------------------------------------------------------
\* One iteration of the loop of _collect_point_data
\* ------------------------------------------------------------------------

\* cv2.waitKey(1) & 0xFF: no key, ESC, SPACE.
NoKey == 255

ESC == 27

SPACE == 32

\* CollectIteration recording without waiting for SPACE: every present
\* combined gaze is appended.
CollectIterationWithoutSignal(a, point, collecting, samples, p, key) ==
    IF key = ESC
    THEN [outcome |-> "cancelled", tool |-> a, trk |-> p.trk,
          collecting |-> collecting, samples |-> samples]
    ELSE Only({ Only({
        IF Len(samples1) > Len(samples) /\ Len(samples1) >= a.samples_per_point
        THEN [outcome |-> "collected",
              tool |-> [a EXCEPT !.calibration_data =
                            Append(@, [point |-> point, samples |-> samples1])],
              trk |-> trk1, collecting |-> collecting, samples |-> samples1]
        ELSE [outcome |-> "continue", tool |-> a, trk |-> trk1,
              collecting |-> (collecting \/ key = SPACE), samples |-> samples1]
        : samples1 \in {IF p.gaze.combined_gaze.some
                        THEN Append(samples, p.gaze.combined_gaze.v)
                        ELSE samples} })
        : trk1 \in {IF key = SPACE /\ ~collecting THEN ResetFilters(p.trk) ELSE p.trk} })

\* One iteration on a frame that was read, p being what process_frame
\* returned for it, in a tool a whose point in progress has the given
\* collecting flag and samples.  ESC returns False.  SPACE starts the
\* recording and resets the filters.  While recording, a present combined
\* gaze is appended, and the point is stored and True returned once
\* samples_per_point samples are there.
CollectIteration(a, point, collecting, samples, p, key) ==
    IF key = ESC
    THEN [outcome |-> "cancelled", tool |-> a, trk |-> p.trk,
          collecting |-> collecting, samples |-> samples]
    ELSE Only({ Only({
        IF Len(samples1) > Len(samples) /\ Len(samples1) >= a.samples_per_point
        THEN [outcome |-> "collected",
              tool |-> [a EXCEPT !.calibration_data =
                            Append(@, [point |-> point, samples |-> samples1])],
              trk |-> trk1, collecting |-> TRUE, samples |-> samples1]
        ELSE [outcome |-> "continue", tool |-> a, trk |-> trk1,
              collecting |-> (collecting \/ key = SPACE), samples |-> samples1]
        : samples1 \in {IF (collecting \/ key = SPACE) /\ p.gaze.combined_gaze.some
                        THEN Append(samples, p.gaze.combined_gaze.v)
                        ELSE samples} })
        : trk1 \in {IF key = SPACE /\ ~collecting THEN ResetFilters(p.trk) ELSE p.trk} })

\* ------------------------------------------------------------------------
\* QuickCalibration (visual_assessment.py)
\* ------------------------------------------------------------------------

\* margin, in pixels: the distance of the four outer targets from the edge.
QuickMargin == 150

\* QuickCalibration.__init__: the five targets in the order they are shown.
NewQuickCalibration(width, height) ==
    [screen_width  |-> width,
     screen_height |-> height,
     cal_points    |-> << [name |-> "center", x |-> width \div 2, y |-> height \div 2],
                          [name |-> "top", x |-> width \div 2, y |-> QuickMargin],
                          [name |-> "bottom", x |-> width \div 2, y |-> height - QuickMargin],
                          [name |-> "left", x |-> QuickMargin, y |-> height \div 2],
                          [name |-> "right", x |-> width - QuickMargin, y |-> height \div 2] >>]

\* (target / dimension) * 2 - 1: a pixel coordinate as a gaze component.
ExpectedComponent(target, dimension) ==
    (2 * target * ONE + dimension \div 2) \div dimension - ONE

ExpectedGaze(q, point) ==
    <<ExpectedComponent(point.x, q.screen_width),
      ExpectedComponent(point.y, q.screen_height)>>

\* The dict _collect_point returns once num_samples samples are there.
QuickMeasurement(q, point, samples) ==
    Only({ Only({
        [name     |-> point.name,
         expected |-> expected,
         measured |-> measured,
         error    |-> <<expected[1] - measured[1], expected[2] - measured[2]>>]
        : measured \in {<<Mean([i \in 1..Len(samples) |-> samples[i][1]]),
                          Mean([i \in 1..Len(samples) |-> samples[i][2]])>>} })
        : expected \in {ExpectedGaze(q, point)} })

\* QuickCalibration._compute_offsets on the tracker t: the tracker's offset
\* plus the mean error, clipped to [-1, 1].
QuickComputeOffsets(t, measurements) ==
    <<Clip(t.offset_x + Mean([i \in 1..Len(measurements) |-> measurements[i].error[1]]),
           -ONE, ONE),
      Clip(t.offset_y + Mean([i \in 1..Len(measurements) |-> measurements[i].error[2]]),
           -ONE, ONE)>>

\* One iteration of the loop of QuickCalibration._collect_point on a frame
\* that was read, g being the combined gaze process_frame returned for it.
\* ESC returns None.  SPACE starts the recording.  While recording, a
\* present gaze is appended, and the measurement is returned once
\* num_samples samples are there.
QuickCollectIteration(q, point, num_samples, collecting, samples, g, key) ==
    IF key = ESC
    THEN [outcome |-> "cancelled", collecting |-> collecting, samples |-> samples,
          measurement |-> Absent]
    ELSE Only({ Only({
        IF Len(samples1) > Len(samples) /\ Len(samples1) >= num_samples
        THEN [outcome |-> "collected", collecting |-> collecting1, samples |-> samples1,
              measurement |-> Present(QuickMeasurement(q, point, samples1))]
        ELSE [outcome |-> "continue", collecting |-> collecting1, samples |-> samples1,
              measurement |-> Absent]
        : samples1 \in {IF collecting1 /\ g.some THEN Append(samples, g.v) ELSE samples} })
        : collecting1 \in {collecting \/ key = SPACE} })

\* No QuickCalibration.run in progress: the camera delivers frames and no
\* key is waiting to be read by cv2.waitKey.
NoQuick ==
    [active |-> FALSE, index |-> 0, collecting |-> FALSE, samples |-> << >>,
     measurements |-> << >>, camera |-> "live", pending |-> NoKey]

\* The record of the last QuickCalibration.run: whether it was cancelled,
\* the tracker's offsets when it returned, the measurements it collected
\* and the pair it returned.
NoQuickCall ==
    [done |-> FALSE, cancelled |-> FALSE, offset |-> <<0, 0>>,
     measurements |-> << >>, ret |-> <<0, 0>>]

\* ------------------------------------------------------------------------
\* VisualAssessmentTool.run_session (visual_assessment.py)
\* ------------------------------------------------------------------------

\* target_size of create_preference_test, in pixels.
TargetSize == 300

\* None as the result of _check_gaze_on_target and as current_target.
NoTarget == ""

\* VisualAssessmentTool.create_preference_test: the list of targets.
CreatePreferenceTest(v) ==
    << [id |-> "left", x |-> v.screen_width \div 4, y |-> v.screen_height \div 2,
        width |-> TargetSize, height |-> TargetSize, shape |-> "circle"],
       [id |-> "right", x |-> (3 * v.screen_width) \div 4, y |-> v.screen_height \div 2,
        width |-> TargetSize, height |-> TargetSize, shape |-> "circle"] >>

\* The test _check_gaze_on_target makes for one target: within width // 2
\* of the centre of a circle, or inside the rectangle.
OnTarget(target, screen_x, screen_y) ==
    IF target.shape = "circle"
    THEN (screen_x - target.x) * (screen_x - target.x)
             + (screen_y - target.y) * (screen_y - target.y)
         <= (target.width \div 2) * (target.width \div 2)
    ELSE /\ target.x - target.width \div 2 <= screen_x
         /\ screen_x <= target.x + target.width \div 2
         /\ target.y - target.height \div 2 <= screen_y
         /\ screen_y <= target.y + target.height \div 2

\* VisualAssessmentTool._check_gaze_on_target: the id of the first target
\* of the list the point is on, or None.
CheckGazeOnTarget(targets, screen_x, screen_y) ==
    IF \E i \in 1..Len(targets) : OnTarget(targets[i], screen_x, screen_y)
    THEN targets[CHOOSE i \in 1..Len(targets) :
                    /\ OnTarget(targets[i], screen_x, screen_y)
                    /\ \A j \in 1..(i - 1) : ~OnTarget(targets[j], screen_x, screen_y)].id
    ELSE NoTarget

\* get_calibrated_screen_point returning the tracker's screen point whatever
\* the calibrator holds.
GetCalibratedScreenPointUncalibrated(v, g) ==
    IF ~g.combined_gaze.some THEN [ok |-> TRUE, point |-> None]
    ELSE [ok |-> TRUE, point |-> g.screen_point]

\* VisualAssessmentTool.get_calibrated_screen_point on the GazeData g: the
\* optional point returned, or ok = FALSE when gaze_to_screen raises.
GetCalibratedScreenPoint(v, g) ==
    IF ~g.combined_gaze.some THEN [ok |-> TRUE, point |-> None]
    ELSE IF v.calibrator.some /\ v.calibrator.v.transform_matrix.some
    THEN Only({ [ok |-> r.ok, point |-> IF r.ok THEN Some(r.v) ELSE None]
                : r \in {GazeToScreen(v.calibrator.v, g.combined_gaze.v)} })
    ELSE [ok |-> TRUE, point |-> g.screen_point]

\* ord('q'), ord('r') and the code of the Up arrow.
KEY_Q == 113

KEY_R == 114

KEY_UP == 82

\* The step 0.05 of the arrow keys, in units of 1/ONE.
OffsetStep == 819

\* The key handling at the end of an iteration of run_session: whether the
\* loop is left, the selections and the tracker afterwards.
HandleKey(t, selections, key) ==
    IF key = KEY_Q THEN [quit |-> TRUE, selections |-> selections, trk |-> t]
    ELSE IF key = KEY_R THEN [quit |-> FALSE, selections |-> << >>, trk |-> t]
    ELSE IF key = KEY_UP \/ key = 0
    THEN [quit |-> FALSE, selections |-> selections,
          trk |-> SetOffset(t, NoArg, Arg(t.offset_y - OffsetStep))]
    ELSE [quit |-> FALSE, selections |-> selections, trk |-> t]

\* dwell_start: None, or a reading of time.time().
NoTime == [some |-> FALSE, v |-> 0]

Time(t) == [some |-> TRUE, v |-> t]

\* DwellStep without the restart of the timer after a selection.
DwellStepWithoutRestart(current_target, dwell_start, gazed_target, current_time, threshold) ==
    IF gazed_target # NoTarget
    THEN IF gazed_target # current_target
         THEN [current_target |-> gazed_target, dwell_start |-> Time(current_time),
               selected |-> FALSE]
         ELSE IF dwell_start.some /\ dwell_start.v # 0
                 /\ current_time - dwell_start.v >= threshold
         THEN [current_target |-> current_target, dwell_start |-> dwell_start,
               selected |-> TRUE]
         ELSE [current_target |-> current_target, dwell_start |-> dwell_start,
               selected |-> FALSE]
    ELSE [current_target |-> NoTarget, dwell_start |-> NoTime, selected |-> FALSE]

\* The dwell selection step of run_session for a frame read at current_time
\* whose gaze is on gazed_target: current_target and dwell_start afterwards,
\* and whether a selection of gazed_target was appended.
DwellStep(current_target, dwell_start, gazed_target, current_time, threshold) ==
    IF gazed_target # NoTarget
    THEN IF gazed_target # current_target
         THEN [current_target |-> gazed_target, dwell_start |-> Time(current_time),
               selected |-> FALSE]
         ELSE IF dwell_start.some /\ dwell_start.v # 0
                 /\ current_time - dwell_start.v >= threshold
         THEN [current_target |-> current_target, dwell_start |-> Time(current_time),
               selected |-> TRUE]
         ELSE [current_target |-> current_target, dwell_start |-> dwell_start,
               selected |-> FALSE]
    ELSE [current_target |-> NoTarget, dwell_start |-> NoTime, selected |-> FALSE]

\* The gaze history a selection is judged by: the target the gaze was on in
\* the last processed frame, and the time of the first frame of the
\* unbroken run of frames on that target, or of the last selection in it.
NoStreak == [target |-> NoTarget, since |-> 0]

StreakAfter(streak, gazed_target, current_time, selected) ==
    IF gazed_target = NoTarget THEN NoStreak
    ELSE IF gazed_target # streak.target \/ selected
    THEN [target |-> gazed_target, since |-> current_time]
    ELSE streak

\* No run_session in progress.  now: the last reading of time.time().
NoAssessment ==
    [active |-> FALSE, session_start |-> 0, now |-> 0, frames |-> 0,
     current_target |-> NoTarget, dwell_start |-> NoTime, selections |-> << >>,
     events |-> << >>, keys |-> 0, streak |-> NoStreak]

\* The record of the last iteration of the loop of run_session: how it went
\* ("frame": a frame was processed; "no_frame": read() failed; "ended": the
\* duration was over; "raised": get_calibrated_screen_point raised), the
\* time read, the result of get_calibrated_screen_point, the target the
\* gaze was on, whether a selection was appended, the key read, and
\* current_target, dwell_start and the gaze history before the iteration.
NoIteration ==
    [op |-> "none", time |-> 0, point |-> None, gazed |-> NoTarget, selected |-> FALSE,
     key |-> NoKey, current_target |-> NoTarget, dwell_start |-> NoTime,
     streak |-> NoStreak]

\* The state of the assessment variables in specifications that do not use
\* them.
IdleAssess ==
    /\ quick = NoQuick
    /\ qcall = NoQuickCall
    /\ assess = NoAssessment
    /\ acall = NoIteration

\* ------------------------------------------------------------------------
\* Inputs of the tracker
\* ------------------------------------------------------------------------

\* Screen of the demo programs.
ScreenWidth == 1920

ScreenHeight == 1080

\* smoothing_factor 0.3, the default of EyeGazeTracker.__init__: the double
\* nearest to 0.3, which is 5404319552844595 / 2^54.
DefaultSmoothing == <<0, 78643, 52428, 209715>>

\* Sensitivity 2.5 / 3.0 and offset 0.0 / 0.3: the defaults of
\* EyeGazeTracker.__init__, in units of 1/ONE.
DefaultSensitivityX == 40960

DefaultSensitivityY == 49152

DefaultOffsetX == 0

DefaultOffsetY == 4915

\* Constructor arguments <<sensitivity_x, sensitivity_y, offset_x, offset_y>>:
\* the defaults, and values outside the documented ranges (10.0, 0.1, 2.0, -1.5).
ConstructorArgs ==
    { <<DefaultSensitivityX, DefaultSensitivityY, DefaultOffsetX, DefaultOffsetY>>,
      <<10 * ONE, 1638, 2 * ONE, -(3 * ONE) \div 2>> }

Construct(a) ==
    NewTracker(ScreenWidth, ScreenHeight, DefaultSmoothing, a[1], a[2], a[3], a[4])

\* An eye whose outer corner is at (x0, 100), 60 px wide, with the iris
\* displaced by (dx, dy) from the centre and the lids at 100 - up, 100 + down.
Eye(x0, dx, dy, up, down) ==
    [outer  |-> <<x0, 100>>,
     inner  |-> <<x0 + 60, 100>>,
     iris   |-> <<x0 + 30 + dx, 100 + dy>>,
     top    |-> <<x0 + 34, 100 - up>>,
     bottom |-> <<x0 + 34, 100 + down>>]

\* An eye whose two corners coincide (eye width 0).
DegenerateEye(x0) ==
    [outer  |-> <<x0, 100>>,
     inner  |-> <<x0, 100>>,
     iris   |-> <<x0, 100>>,
     top    |-> <<x0, 92>>,
     bottom |-> <<x0, 108>>]

FaceFrame(n, l, r) == [face |-> TRUE, landmarks |-> [n |-> n, left |-> l, right |-> r]]

NoFaceFrame ==
    [face |-> FALSE,
     landmarks |-> [n |-> 0, left |-> DegenerateEye(0), right |-> DegenerateEye(0)]]

\* Detection results fed to process_frame: no face; both eyes readable
\* (478 landmarks, iris landmarks present); gaze far off centre; both eyes
\* turned to the lower right corner; one eye
\* blinking (lid gap 3 px); one eye degenerate; both eyes blinking; a model
\* without iris landmarks (468); a landmark list too short for the right eye;
\* the same with the left eye blinking; a list without iris landmarks that
\* ends before the right eye's upper lid (386).
Frames ==
    { NoFaceFrame,
      FaceFrame(478, Eye(100, 6, 2, 8, 8), Eye(200, 0, 0, 8, 8)),
      FaceFrame(478, Eye(100, 28, 10, 10, 12), Eye(200, -28, -12, 10, 12)),
      FaceFrame(478, Eye(100, 28, 10, 10, 12), Eye(200, 28, 12, 10, 12)),
      FaceFrame(478, Eye(100, 0, 0, 1, 2), Eye(200, 6, 2, 8, 8)),
      FaceFrame(478, Eye(100, -4, 1, 8, 8), DegenerateEye(200)),
      FaceFrame(478, Eye(100, 0, 0, 2, 2), Eye(200, 0, 0, 1, 1)),
      FaceFrame(468, Eye(100, 0, 0, 10, 6), Eye(200, 0, 0, 6, 10)),
      FaceFrame(200, Eye(100, 0, 0, 10, 6), Eye(200, 0, 0, 8, 8)),
      FaceFrame(200, Eye(100, 0, 0, 1, 2), Eye(200, 0, 0, 8, 8)),
      FaceFrame(380, Eye(100, 0, 0, 10, 6), Eye(200, 0, 0, 6, 10)) }

\* The record of the last call made on the tracker: the method, the
\* arguments of a setter, the detection result process_frame worked on, and
\* the tracker as it was before the call.
\* For a call of the estimator alone: the eye and the vector returned.
TrackerCall(op, x, y, fr, before) ==
    [op |-> op, x |-> x, y |-> y, fr |-> fr, before |-> before,
     eye |-> "none", out |-> None]

EstimatorCall(eye, fr, before, out) ==
    [TrackerCall("_get_iris_position", NoArg, NoArg, fr, before)
        EXCEPT !.eye = eye, !.out = out]

NoTrackerCall ==
    TrackerCall("none", NoArg, NoArg, NoFaceFrame,
                Construct(<<DefaultSensitivityX, DefaultSensitivityY,
                            DefaultOffsetX, DefaultOffsetY>>))

\* The state of the tracker variables in specifications that do not use it.
IdleTracker ==
    /\ trk = Construct(<<DefaultSensitivityX, DefaultSensitivityY, DefaultOffsetX, DefaultOffsetY>>)
    /\ gaze = EmptyGazeData
    /\ tcall = NoTrackerCall
    /\ tcalls = 0

\* No run_calibration in progress.
NoSession ==
    [active |-> "none", index |-> 0, collecting |-> FALSE, samples |-> << >>,
     frames |-> 0, before |-> Model(NoCalibrator.v), had |-> FALSE]

\* The record of the last completed call: the object and method, the value
\* returned, whether a run was cancelled, what its fit step did ("none",
\* "refused", "fitted"), the number of points the fit step saw, the model
\* the object stored before the call and whether it had a CalibrationTool
\* then, and for gaze_to_screen the argument and the outcome.
NoCalibCall ==
    [obj |-> "none", op |-> "none", ret |-> FALSE, cancelled |-> FALSE,
     fit |-> "none", points |-> 0, before |-> Model(NoCalibrator.v), had |-> FALSE,
     arg |-> <<0, 0>>, out |-> Raised]

\* The state of the calibration variables in specifications that do not
\* use them.
IdleCalib ==
    /\ tool = NewCalibrationTool(9, SamplesPerPoint, ScreenWidth, ScreenHeight, POLYNOMIAL)
    /\ vat = NewAssessmentTool(ScreenWidth, ScreenHeight)
    /\ files = NoFile
    /\ session = NoSession
    /\ ccall = NoCalibCall
    /\ ccalls = 0
    /\ runs = 0
    /\ IdleAssess

\* ------------------------------------------------------------------------
\* The two filters driven directly: update, predict and reset in any order
\* ------------------------------------------------------------------------

\* Calls made on the two filters in one run.
MaxFilterCalls == 3

\* Measurements fed to the filters.  16777217 = 2^24 + 1 units is the
\* double 1024.00006103515625, which single precision cannot represent;
\* -16777219 rounds away from zero.
Measurements ==
    { <<0, 0>>, <<ONE \div 2, -ONE>>, <<16777217, 4915>>, <<-16777219, ONE>> }

\* The record of the last call: the filter it was made on, the method, the
\* argument, whether the filter was initialized before it, the value
\* returned, the value the same call returned on the filter constructed at
\* the last reset, and <<obj, op, wasInit>> of the call before it.
NoCall ==
    [obj |-> "none", op |-> "none", arg |-> <<0, 0>>, wasInit |-> FALSE,
     ret |-> <<0, 0>>, fresh |-> <<0, 0>>, prev |-> <<"none", "none", FALSE>>]

PrevCall == <<fcall.obj, fcall.op, fcall.wasInit>>

\* The record of the last call of a stream: the method, the argument, and
\* for either filter the value returned, the value the same call returned
\* on the filter constructed at the last reset, and the value the call
\* before returned.
StreamCall(op, arg, ret_kf, ret_akf, fresh_ret_kf, fresh_ret_akf) ==
    [op |-> op, arg |-> arg,
     kf |-> ret_kf, akf |-> ret_akf,
     fresh_kf |-> fresh_ret_kf, fresh_akf |-> fresh_ret_akf,
     prev_kf |-> scall.kf, prev_akf |-> scall.akf]

NoStreamCall ==
    [op |-> "none", arg |-> <<0, 0>>,
     kf |-> <<0, 0>>, akf |-> <<0, 0>>,
     fresh_kf |-> <<0, 0>>, fresh_akf |-> <<0, 0>>,
     prev_kf |-> <<0, 0>>, prev_akf |-> <<0, 0>>]

\* The log of a stream.  calls, resets, predicts: the calls made so far.
\* fed: the updates since the filters were last uninitialized.  steady:
\* every call since then was an update with one and the same measurement.
\* moved: the last reset met filters that had a velocity.  velocities: the
\* velocity magnitude of akf after each filtered update since the last
\* reset, oldest first.
NoStreamLog ==
    [calls |-> 0, resets |-> 0, predicts |-> 0,
     fed |-> 0, steady |-> TRUE, moved |-> FALSE, velocities |-> << >>]

\* A filter whose last filtered update left it moving at velocity v along
\* x, the only velocity in its history.
Moving(f, v) ==
    [f EXCEPT !.initialized = TRUE,
              !.state = <<0, 0, v, 0>>,
              !.velocity_history = <<v>>]

\* The record of an evaluation of _get_adaptive_measurement_noise: the
\* filter it was made on, afterwards; its smoothed velocity; the local
\* variable multiplier; the noise returned (on the diagonal of R); the
\* multiplier at the velocity one unit lower; and the lowest multiplier at
\* any lower velocity.
NoiseCall(f, velocity, multiplier, noise) ==
    [op |-> "_get_adaptive_measurement_noise",
     f |-> [f EXCEPT !.current_measurement_noise = noise],
     velocity |-> velocity, multiplier |-> multiplier, noise |-> noise,
     before |-> ncall.multiplier,
     lowest |-> IF ncall.op = "none" THEN multiplier
                ELSE Min(ncall.lowest, ncall.multiplier)]

NoNoiseCall(f) ==
    [op |-> "none", f |-> f, velocity |-> -1, multiplier |-> 0, noise |-> 0,
     before |-> 0, lowest |-> 0]

\* Everything about the filters but ncall, in specifications that do not
\* use them.
IdleKalman ==
    /\ kf = NewKalman(DefaultProcessNoise, DefaultMeasurementNoise)
    /\ akf = NewAdaptive(DefaultProcessNoise, DefaultMeasurementNoise)
    /\ fresh_kf = kf
    /\ fresh_akf = akf
    /\ fcall = NoCall
    /\ fcalls = 0
    /\ scall = NoStreamCall
    /\ slog = NoStreamLog

\* The state of the filter variables in specifications that do not use them.
IdleFilter ==
    /\ IdleKalman
    /\ ncall = NoNoiseCall(NewAdaptive(DefaultProcessNoise, DefaultMeasurementNoise))

InitFilter ==
    /\ IdleFilter
    /\ IdleTracker
    /\ IdleCalib

KFUpdate(m) ==
    /\ fcalls < MaxFilterCalls
    /\ \E u \in {KF_update(kf, m)}, w \in {KF_update(fresh_kf, m)} :
           /\ kf' = u.filter
           /\ fresh_kf' = w.filter
           /\ fcall' = [obj |-> "kf", op |-> "update", arg |-> m,
                        wasInit |-> kf.initialized, ret |-> u.ret,
                        fresh |-> w.ret, prev |-> PrevCall]
    /\ fcalls' = fcalls + 1
    /\ UNCHANGED <<akf, fresh_akf, streamVars, ncall, trackerVars, calibVars>>

KFPredict ==
    /\ fcalls < MaxFilterCalls
    /\ kf' = KF_predict(kf)
    /\ fresh_kf' = KF_predict(fresh_kf)
    /\ fcall' = [obj |-> "kf", op |-> "predict", arg |-> <<0, 0>>,
                 wasInit |-> kf.initialized, ret |-> Pos(kf'),
                 fresh |-> Pos(fresh_kf'), prev |-> PrevCall]
    /\ fcalls' = fcalls + 1
    /\ UNCHANGED <<akf, fresh_akf, streamVars, ncall, trackerVars, calibVars>>

KFReset ==
    /\ fcalls < MaxFilterCalls
    /\ kf' = KF_reset(kf)
    /\ fresh_kf' = NewKalman(DefaultProcessNoise, DefaultMeasurementNoise)
    /\ fcall' = [obj |-> "kf", op |-> "reset", arg |-> <<0, 0>>,
                 wasInit |-> kf.initialized, ret |-> <<0, 0>>,
                 fresh |-> <<0, 0>>, prev |-> PrevCall]
    /\ fcalls' = fcalls + 1
    /\ UNCHANGED <<akf, fresh_akf, streamVars, ncall, trackerVars, calibVars>>

AKFUpdate(m) ==
    /\ fcalls < MaxFilterCalls
    /\ \E u \in {AKF_update(akf, m)}, w \in {AKF_update(fresh_akf, m)} :
           /\ akf' = u.filter
           /\ fresh_akf' = w.filter
           /\ fcall' = [obj |-> "akf", op |-> "update", arg |-> m,
                        wasInit |-> akf.initialized, ret |-> u.ret,
                        fresh |-> w.ret, prev |-> PrevCall]
    /\ fcalls' = fcalls + 1
    /\ UNCHANGED <<kf, fresh_kf, streamVars, ncall, trackerVars, calibVars>>

AKFPredict ==
    /\ fcalls < MaxFilterCalls
    /\ akf' = AKF_predict(akf)
    /\ fresh_akf' = AKF_predict(fresh_akf)
    /\ fcall' = [obj |-> "akf", op |-> "predict", arg |-> <<0, 0>>,
                 wasInit |-> akf.initialized, ret |-> Pos(akf'),
                 fresh |-> Pos(fresh_akf'), prev |-> PrevCall]
    /\ fcalls' = fcalls + 1
    /\ UNCHANGED <<kf, fresh_kf, streamVars, ncall, trackerVars, calibVars>>

AKFReset ==
    /\ fcalls < MaxFilterCalls
    /\ akf' = AKF_reset(akf)
    /\ fresh_akf' = NewAdaptive(DefaultProcessNoise, DefaultMeasurementNoise)
    /\ fcall' = [obj |-> "akf", op |-> "reset", arg |-> <<0, 0>>,
                 wasInit |-> akf.initialized, ret |-> <<0, 0>>,
                 fresh |-> <<0, 0>>, prev |-> PrevCall]
    /\ fcalls' = fcalls + 1
    /\ UNCHANGED <<kf, fresh_kf, streamVars, ncall, trackerVars, calibVars>>

NextFilter ==
    \/ \E m \in Measurements : KFUpdate(m)
    \/ KFPredict
    \/ KFReset
    \/ \E m \in Measurements : AKFUpdate(m)
    \/ AKFPredict
    \/ AKFReset

SpecFilter == InitFilter /\ [][NextFilter]_vars

\* ------------------------------------------------------------------------
\* One measurement stream fed to a filter of each kind
\*
\* Every call is made on kf and on akf, as process_frame feeds its filters
\* frame by frame, and on the two filters constructed at the last reset.
\* ------------------------------------------------------------------------

\* Calls, resets and direct predicts made in one stream.
MaxStreamCalls == 8

MaxStreamResets == 1

MaxStreamPredicts == 1

\* Measurements of a stream: (0, 0) and (0.5, -1.0).
StreamMeasurements == { <<0, 0>>, <<ONE \div 2, -ONE>> }

InitStream == InitFilter

StreamUpdate(m) ==
    /\ slog.calls < MaxStreamCalls
    /\ \E u \in {KF_update(kf, m)}, a \in {AKF_update(akf, m)},
          fu \in {KF_update(fresh_kf, m)}, fa \in {AKF_update(fresh_akf, m)} :
           /\ kf' = u.filter
           /\ akf' = a.filter
           /\ fresh_kf' = fu.filter
           /\ fresh_akf' = fa.filter
           /\ scall' = StreamCall("update", m, u.ret, a.ret, fu.ret, fa.ret)
           /\ slog' = [slog EXCEPT
                          !.calls = @ + 1,
                          !.fed = @ + 1,
                          !.steady = IF slog.fed = 0 THEN TRUE
                                     ELSE @ /\ scall.arg = m,
                          !.velocities =
                              IF akf.initialized
                              THEN Append(@, AKF_get_velocity(a.filter))
                              ELSE @]
    /\ UNCHANGED <<fcall, fcalls, ncall, trackerVars, calibVars>>

StreamPredict ==
    /\ slog.calls < MaxStreamCalls
    /\ slog.predicts < MaxStreamPredicts
    /\ kf' = KF_predict(kf)
    /\ akf' = AKF_predict(akf)
    /\ fresh_kf' = KF_predict(fresh_kf)
    /\ fresh_akf' = AKF_predict(fresh_akf)
    /\ scall' = StreamCall("predict", <<0, 0>>, Pos(kf'), Pos(akf'),
                           Pos(fresh_kf'), Pos(fresh_akf'))
    /\ slog' = [slog EXCEPT !.calls = @ + 1,
                            !.predicts = @ + 1,
                            !.steady = @ /\ slog.fed = 0]
    /\ UNCHANGED <<fcall, fcalls, ncall, trackerVars, calibVars>>

StreamReset ==
    /\ slog.calls < MaxStreamCalls
    /\ slog.resets < MaxStreamResets
    /\ kf' = KF_reset(kf)
    /\ akf' = AKF_reset(akf)
    /\ fresh_kf' = NewKalman(DefaultProcessNoise, DefaultMeasurementNoise)
    /\ fresh_akf' = NewAdaptive(DefaultProcessNoise, DefaultMeasurementNoise)
    /\ scall' = StreamCall("reset", <<0, 0>>, <<0, 0>>, <<0, 0>>, <<0, 0>>, <<0, 0>>)
    /\ slog' = [slog EXCEPT !.calls = @ + 1,
                            !.resets = @ + 1,
                            !.fed = 0,
                            !.steady = TRUE,
                            !.moved = /\ KF_get_velocity(kf) > 0
                                      /\ AKF_get_velocity(akf) > 0
                                      /\ akf.velocity_history # << >>,
                            !.velocities = << >>]
    /\ UNCHANGED <<fcall, fcalls, ncall, trackerVars, calibVars>>

NextStream ==
    \/ \E m \in StreamMeasurements : StreamUpdate(m)
    \/ StreamPredict
    \/ StreamReset

SpecStream == InitStream /\ [][NextStream]_vars

\* ------------------------------------------------------------------------
\* The adaptive measurement noise as a function of velocity
\*
\* _get_adaptive_measurement_noise is evaluated on a filter at every
\* velocity from 0 upwards, one unit of the scale at a time.
\* ------------------------------------------------------------------------

\* The highest velocity evaluated: above 0.2.
MaxVelocity == 3300

\* The filters evaluated: AdaptiveKalmanFilter2D() with its defaults
\* (thresholds 0.02 and 0.15, multipliers 3.0 and 0.3, base 0.01), one with
\* thresholds 0.05 and 0.1, multipliers 2.0 and 0.5, base 1.0, and one with
\* thresholds 0.06 and 0.18, multipliers 4.0 and 1.0, base 0.5.
NoiseFilters ==
    { NewAdaptive(DefaultProcessNoise, DefaultMeasurementNoise),
      NewAdaptiveWith(DefaultProcessNoise, ONE, 819, 1638, 2 * ONE, ONE \div 2),
      NewAdaptiveWith(DefaultProcessNoise, ONE \div 2, 983, 2949, 4 * ONE, ONE) }

InitNoise ==
    /\ IdleKalman
    /\ \E f \in NoiseFilters : ncall = NoNoiseCall(f)
    /\ IdleTracker
    /\ IdleCalib

\* _get_adaptive_measurement_noise at the next velocity.
GetAdaptiveMeasurementNoise ==
    /\ ncall.velocity < MaxVelocity
    /\ \E f \in {Moving(ncall.f, ncall.velocity + 1)} :
           ncall' = NoiseCall(f, AKF_get_smoothed_velocity(f),
                              MeasurementMultiplier(f, AKF_get_smoothed_velocity(f)),
                              AKF_adaptive_measurement_noise(f))
    /\ UNCHANGED <<kf, akf, fresh_kf, fresh_akf, fcall, fcalls, streamVars,
                   trackerVars, calibVars>>

NextNoise == GetAdaptiveMeasurementNoise

SpecNoise == InitNoise /\ [][NextNoise]_vars

\* ------------------------------------------------------------------------
\* The tracker processing frames
\* ------------------------------------------------------------------------

\* Calls made on the tracker in one run.
MaxTrackerCalls == 3

InitTracker ==
    /\ \E a \in ConstructorArgs :
           /\ trk = Construct(a)
           /\ tcall = TrackerCall("none", NoArg, NoArg, NoFaceFrame, Construct(a))
    /\ gaze = EmptyGazeData
    /\ tcalls = 0
    /\ IdleFilter
    /\ IdleCalib

Frame(fr) ==
    /\ tcalls < MaxTrackerCalls
    /\ \E p \in {ProcessFrame(trk, fr)} :
           /\ trk' = p.trk
           /\ gaze' = p.gaze
    /\ tcall' = TrackerCall("process_frame", NoArg, NoArg, fr, trk)
    /\ tcalls' = tcalls + 1
    /\ UNCHANGED <<filterVars, calibVars>>

Reset ==
    /\ tcalls < MaxTrackerCalls
    /\ trk' = ResetFilters(trk)
    /\ tcall' = TrackerCall("reset_filters", NoArg, NoArg, NoFaceFrame, trk)
    /\ tcalls' = tcalls + 1
    /\ UNCHANGED <<gaze, filterVars, calibVars>>

NextTracker ==
    \/ \E fr \in Frames : Frame(fr)
    \/ Reset

SpecTracker == InitTracker /\ [][NextTracker]_vars

\* ------------------------------------------------------------------------
\* The tracker's tuning surface: construction and the two setters
\* ------------------------------------------------------------------------

\* Arguments given to set_sensitivity: none, 0.2, 1.5, 6.0.
SensitivityArgs == { NoArg, Arg(3277), Arg((3 * ONE) \div 2), Arg(6 * ONE) }

\* Arguments given to set_offset: none, -2.0, 0.5, 1.5.
OffsetArgs == { NoArg, Arg(-2 * ONE), Arg(ONE \div 2), Arg((3 * ONE) \div 2) }

InitConfig == InitTracker

CallSetSensitivity(x, y) ==
    /\ trk' = SetSensitivity(trk, x, y)
    /\ tcall' = TrackerCall("set_sensitivity", x, y, NoFaceFrame, trk)
    /\ UNCHANGED <<gaze, tcalls, filterVars, calibVars>>

CallSetOffset(x, y) ==
    /\ trk' = SetOffset(trk, x, y)
    /\ tcall' = TrackerCall("set_offset", x, y, NoFaceFrame, trk)
    /\ UNCHANGED <<gaze, tcalls, filterVars, calibVars>>

\* _get_iris_position called for one eye of a detected face, with the
\* sensitivities and offsets the tracker holds at that moment.
CallGetIrisPosition(fr, eye) ==
    /\ fr.face
    /\ tcall' = EstimatorCall(eye, fr, trk,
                    GetIrisPosition(trk, fr.landmarks,
                                    OuterIdx(eye), InnerIdx(eye), IrisIdx(eye)))
    /\ UNCHANGED <<trk, gaze, tcalls, filterVars, calibVars>>

NextConfig ==
    \/ \E x, y \in SensitivityArgs : CallSetSensitivity(x, y)
    \/ \E x, y \in OffsetArgs : CallSetOffset(x, y)
    \/ \E fr \in Frames, eye \in Eyes : CallGetIrisPosition(fr, eye)

SpecConfig == InitConfig /\ [][NextConfig]_vars

\* ------------------------------------------------------------------------
\* Calibration: a CalibrationTool and a VisualAssessmentTool sharing the
\* tracker and the calibration file
\* ------------------------------------------------------------------------

\* Calls made on the two tools in one run.
MaxCalibCalls == 2

\* Frames processed while one calibration point is shown.
MaxPointFrames == 3

\* Calibration sessions started in one run.
MaxRuns == 1

\* The smaller of the two screens used.
SmallWidth == 1280

SmallHeight == 720

\* The CalibrationTool driven directly: affine, 5 points, on the small
\* screen; or every argument defaulted (polynomial, 9 points, 1920 x 1080).
SmallAffineTool == NewCalibrationTool(5, SamplesPerPoint, SmallWidth, SmallHeight, AFFINE)

DefaultTool == NewCalibrationTool(9, SamplesPerPoint, ScreenWidth, ScreenHeight, POLYNOMIAL)

\* An old file without a mode field (3 coefficients); a file tagged affine
\* with 6 coefficients; a file whose two vectors differ in length; a file
\* without transform_y.  None was written by save_calibration.
LegacyFile ==
    File(Present(<<960, 900, 40>>), Present(<<540, -30, 500>>), NoTag,
         0, 0, << >>, FALSE)

\* An old file without a mode field that holds 6 coefficients per axis.
LegacyPolynomialFile ==
    File(Present(<<640, 600, 30, 20, -10, 5>>), Present(<<360, -20, 340, 5, 15, -10>>), NoTag,
         0, 0, << >>, FALSE)

MistaggedFile ==
    File(Present(<<960, 900, 40, 30, -20, 10>>), Present(<<540, -30, 500, 10, 25, -15>>),
         Tag("affine"), ScreenWidth, ScreenHeight, << >>, FALSE)

RaggedFile ==
    File(Present(<<960, 900, 40>>), Present(<<540, -30, 500, 10, 25, -15>>),
         Tag("polynomial"), ScreenWidth, ScreenHeight, << >>, FALSE)

TruncatedFile ==
    File(Present(<<640, 700, 0, 0, 0, 0>>), Absent,
         Tag("polynomial"), ScreenWidth, ScreenHeight, << >>, FALSE)

\* The tool constructed and the calibration file found at the start.
Scenarios ==
    { <<SmallAffineTool, NoFile>>,
      <<SmallAffineTool, LegacyFile>>,
      <<SmallAffineTool, LegacyPolynomialFile>>,
      <<DefaultTool, MistaggedFile>>,
      <<DefaultTool, RaggedFile>>,
      <<SmallAffineTool, TruncatedFile>> }

\* Gaze vectors handed to gaze_to_screen: the centre, a corner of the
\* domain, and (5, -5) outside it.
GazeInputs == { <<0, 0>>, <<ONE, -ONE>>, <<5 * ONE, -5 * ONE>> }

\* Frames read during a calibration session: no face, and both eyes readable.
CalibFrames == { NoFaceFrame, FaceFrame(478, Eye(100, 6, 2, 8, 8), Eye(200, 0, 0, 8, 8)) }

Keys == { NoKey, ESC, SPACE }

InitCalib ==
    /\ \E sc \in Scenarios : tool = sc[1] /\ files = sc[2]
    /\ vat = NewAssessmentTool(ScreenWidth, ScreenHeight)
    /\ session = NoSession
    /\ ccall = NoCalibCall
    /\ ccalls = 0
    /\ runs = 0
    /\ IdleAssess
    /\ IdleTracker
    /\ IdleFilter

\* A call may start: none is in progress and the budget is not used up.
MayCall == session.active = "none" /\ ccalls < MaxCalibCalls

\* tool.run_calibration() up to its loop: the collected data is dropped.
ToolRunStart ==
    /\ MayCall
    /\ runs < MaxRuns
    /\ runs' = runs + 1
    /\ tool' = [tool EXCEPT !.calibration_data = << >>]
    /\ session' = [NoSession EXCEPT !.active = "tool", !.before = Model(tool), !.had = TRUE]
    /\ ccall' = NoCalibCall
    /\ ccalls' = ccalls + 1
    /\ UNCHANGED <<vat, files, filterVars, trackerVars, assessVars>>

\* vat.run_calibration(num_points) up to the loop of the CalibrationTool it
\* creates: the new tool replaces the calibrator held before.
VatRunStart(num_points) ==
    /\ MayCall
    /\ runs < MaxRuns
    /\ runs' = runs + 1
    /\ vat' = [vat EXCEPT !.calibrator = Calibrator(AssessmentCalibrator(vat, num_points))]
    /\ session' = [NoSession EXCEPT !.active = "vat",
                                    !.before = Model(vat.calibrator.v),
                                    !.had = vat.calibrator.some]
    /\ ccall' = NoCalibCall
    /\ ccalls' = ccalls + 1
    /\ UNCHANGED <<tool, files, filterVars, trackerVars, assessVars>>

\* The CalibrationTool whose run_calibration is in progress.
ActiveTool == IF session.active = "tool" THEN tool ELSE vat.calibrator.v

\* The end of a run on the tool a it leaves behind: run_calibration returns
\* ret to its caller, which for the VisualAssessmentTool saves the
\* calibration on True and drops the calibrator on False.
FinishRun(a, ret, cancelled, fit) ==
    /\ IF session.active = "tool"
       THEN tool' = a /\ UNCHANGED <<vat, files>>
       ELSE /\ vat' = [vat EXCEPT !.calibrator = IF ret THEN Calibrator(a) ELSE NoCalibrator]
            /\ files' = IF ret THEN SaveCalibration(a, files).file ELSE files
            /\ UNCHANGED tool
    /\ session' = NoSession
    /\ ccall' = [NoCalibCall EXCEPT !.obj = session.active, !.op = "run_calibration",
                                    !.ret = ret, !.cancelled = cancelled, !.fit = fit,
                                    !.points = Len(a.calibration_data),
                                    !.before = session.before, !.had = session.had]

\* One iteration of the loop of _collect_point_data inside run_calibration:
\* read() fails and the loop continues; or the frame is processed and the
\* key read by cv2.waitKey handled, which goes on with this point, moves to the next one, ends
\* the run cancelled, or after the last point fits and ends the run with
\* True whatever the fit step did.
SessionFrame(ret, fr) ==
    /\ session.active # "none"
    /\ IF ~ret THEN UNCHANGED vars
       ELSE
       \E p \in {ProcessFrame(trk, fr)} :
       \E key \in Keys :
       \E c \in {CollectIteration(ActiveTool,
                                  ActiveTool.calibration_points[session.index + 1],
                                  session.collecting, session.samples, p, key)} :
          /\ session.frames < MaxPointFrames \/ key = ESC
          /\ trk' = c.trk
          /\ gaze' = p.gaze
          /\ UNCHANGED <<tcall, tcalls, filterVars, ccalls, runs, assessVars>>
          /\ CASE c.outcome = "cancelled" ->
                     FinishRun(c.tool, FALSE, TRUE, "none")
               [] c.outcome = "collected"
                  /\ session.index + 1 = Len(ActiveTool.calibration_points) ->
                     \E sol \in LstsqSolutions(DesignColumns(c.tool.mode)) :
                         FinishRun(ComputeCalibration(c.tool, sol), TRUE, FALSE,
                                   IF Fits(c.tool) THEN "fitted" ELSE "refused")
               [] c.outcome = "collected"
                  /\ session.index + 1 < Len(ActiveTool.calibration_points) ->
                     /\ session' = [session EXCEPT !.index = @ + 1,
                                                   !.collecting = FALSE,
                                                   !.samples = << >>,
                                                   !.frames = 0]
                     /\ IF session.active = "tool"
                        THEN tool' = c.tool /\ UNCHANGED vat
                        ELSE vat' = [vat EXCEPT !.calibrator = Calibrator(c.tool)]
                             /\ UNCHANGED tool
                     /\ UNCHANGED <<files, ccall>>
               [] OTHER ->
                     /\ session' = [session EXCEPT !.collecting = c.collecting,
                                                   !.samples = c.samples,
                                                   !.frames = @ + 1]
                     /\ UNCHANGED <<tool, vat, files, ccall>>

\* tool._compute_calibration() called on the data the tool holds.
ToolCompute ==
    /\ MayCall
    /\ \E sol \in LstsqSolutions(DesignColumns(tool.mode)) :
           tool' = ComputeCalibration(tool, sol)
    /\ ccall' = [NoCalibCall EXCEPT !.obj = "tool", !.op = "_compute_calibration",
                                    !.fit = IF Fits(tool) THEN "fitted" ELSE "refused",
                                    !.points = Len(tool.calibration_data),
                                    !.before = Model(tool), !.had = TRUE]
    /\ ccalls' = ccalls + 1
    /\ UNCHANGED <<vat, files, session, runs, filterVars, trackerVars, assessVars>>

\* tool.save_calibration()
ToolSave ==
    /\ MayCall
    /\ \E r \in {SaveCalibration(tool, files)} :
           /\ files' = r.file
           /\ ccall' = [NoCalibCall EXCEPT !.obj = "tool", !.op = "save_calibration",
                                           !.ret = r.ret,
                                           !.before = Model(tool), !.had = TRUE]
    /\ ccalls' = ccalls + 1
    /\ UNCHANGED <<tool, vat, session, runs, filterVars, trackerVars, assessVars>>

\* tool.load_calibration()
ToolLoad ==
    /\ MayCall
    /\ \E r \in {LoadCalibration(tool, files)} :
           /\ tool' = r.tool
           /\ ccall' = [NoCalibCall EXCEPT !.obj = "tool", !.op = "load_calibration",
                                           !.ret = r.ret,
                                           !.before = Model(tool), !.had = TRUE]
    /\ ccalls' = ccalls + 1
    /\ UNCHANGED <<vat, files, session, runs, filterVars, trackerVars, assessVars>>

\* tool.gaze_to_screen(g)
ToolGazeToScreen(g) ==
    /\ MayCall
    /\ ccall' = [NoCalibCall EXCEPT !.obj = "tool", !.op = "gaze_to_screen",
                                    !.arg = g, !.out = GazeToScreen(tool, g),
                                    !.before = Model(tool), !.had = TRUE]
    /\ ccalls' = ccalls + 1
    /\ UNCHANGED <<tool, vat, files, session, runs, filterVars, trackerVars, assessVars>>

\* vat.load_calibration()
VatLoad ==
    /\ MayCall
    /\ \E r \in {VatLoadCalibration(vat, files)} :
           /\ vat' = r.vat
           /\ ccall' = [NoCalibCall EXCEPT !.obj = "vat", !.op = "load_calibration",
                                           !.ret = r.ret,
                                           !.before = Model(vat.calibrator.v),
                                           !.had = vat.calibrator.some]
    /\ ccalls' = ccalls + 1
    /\ UNCHANGED <<tool, files, session, runs, filterVars, trackerVars, assessVars>>

NextCalib ==
    \/ ToolRunStart
    \/ \E n \in {5, 9} : VatRunStart(n)
    \/ \E ret \in BOOLEAN, fr \in CalibFrames : SessionFrame(ret, fr)
    \/ ToolCompute
    \/ ToolSave
    \/ ToolLoad
    \/ \E g \in GazeInputs : ToolGazeToScreen(g)
    \/ VatLoad

SpecCalib == InitCalib /\ [][NextCalib]_vars

\* ------------------------------------------------------------------------
\* QuickCalibration.run: the five targets, the camera and the keyboard
\* ------------------------------------------------------------------------

\* The QuickCalibration constructed on the tracker.
QuickTool == NewQuickCalibration(ScreenWidth, ScreenHeight)

\* The combined gaze process_frame returns for a frame read while a target
\* is shown: none, the target's own position, and the corner (-1, 1).  The
\* frames are represented by this estimate; the tracker's filters are not
\* followed during a quick calibration.
QuickGazes(point) == { None, Some(ExpectedGaze(QuickTool, point)), Some(<<-ONE, ONE>>) }

InitQuick ==
    /\ IdleFilter
    /\ \E a \in ConstructorArgs : trk = Construct(a)
    /\ gaze = EmptyGazeData
    /\ tcall = NoTrackerCall
    /\ tcalls = 0
    /\ tool = NewCalibrationTool(9, SamplesPerPoint, ScreenWidth, ScreenHeight, POLYNOMIAL)
    /\ vat = NewAssessmentTool(ScreenWidth, ScreenHeight)
    /\ files = NoFile
    /\ session = NoSession
    /\ ccall = NoCalibCall
    /\ ccalls = 0
    /\ runs = 0
    /\ IdleAssess

\* QuickCalibration.run(samples_per_point) up to its loop.
QuickRunStart ==
    /\ ~quick.active
    /\ ~qcall.done
    /\ quick' = [quick EXCEPT !.active = TRUE, !.index = 0, !.collecting = FALSE,
                              !.samples = << >>, !.measurements = << >>]
    /\ UNCHANGED <<qcall, sessVars, filterVars, trackerVars,
                   tool, vat, files, session, ccall, ccalls, runs>>

\* The user presses ESC or SPACE: the key waits for the next cv2.waitKey.
PressKey(key) ==
    /\ quick.active
    /\ quick.pending = NoKey
    /\ quick' = [quick EXCEPT !.pending = key]
    /\ UNCHANGED <<qcall, sessVars, filterVars, trackerVars,
                   tool, vat, files, session, ccall, ccalls, runs>>

\* The camera stops delivering frames: from now on cap.read() returns
\* ret = False.
CameraStops ==
    /\ quick.active
    /\ quick.camera = "live"
    /\ quick' = [quick EXCEPT !.camera = "stuck"]
    /\ UNCHANGED <<qcall, sessVars, filterVars, trackerVars,
                   tool, vat, files, session, ccall, ccalls, runs>>

\* The end of run: the value returned, with the tracker's offsets then.
QuickFinish(cancelled, measurements, ret) ==
    /\ quick' = [NoQuick EXCEPT !.camera = quick.camera]
    /\ qcall' = [done |-> TRUE, cancelled |-> cancelled,
                 offset |-> <<trk.offset_x, trk.offset_y>>,
                 measurements |-> measurements, ret |-> ret]

\* One iteration of the loop of _collect_point inside run: read() fails and
\* the loop continues without reading the keyboard; or the frame is
\* processed and the key read by cv2.waitKey handled, which goes on with
\* this target, moves to the next one, ends the run cancelled with the
\* tracker's offsets, or after the last target ends it with the offsets
\* _compute_offsets returns.
QuickIterate(ret, g) ==
    /\ quick.active
    /\ ret => quick.camera = "live"
    /\ UNCHANGED <<sessVars, filterVars, trackerVars,
                   tool, vat, files, session, ccall, ccalls, runs>>
    /\ IF ~ret THEN UNCHANGED quickVars
       ELSE
       \E c \in {QuickCollectIteration(QuickTool, QuickTool.cal_points[quick.index + 1],
                                       SamplesPerPoint, quick.collecting, quick.samples,
                                       g, quick.pending)} :
          CASE c.outcome = "cancelled" ->
                   QuickFinish(TRUE, quick.measurements, <<trk.offset_x, trk.offset_y>>)
            [] c.outcome = "collected"
               /\ quick.index + 1 = Len(QuickTool.cal_points) ->
                   \E ms \in {Append(quick.measurements, c.measurement.v)} :
                       QuickFinish(FALSE, ms, QuickComputeOffsets(trk, ms))
            [] c.outcome = "collected"
               /\ quick.index + 1 < Len(QuickTool.cal_points) ->
                   /\ quick' = [quick EXCEPT !.index = @ + 1,
                                             !.collecting = FALSE,
                                             !.samples = << >>,
                                             !.measurements = Append(@, c.measurement.v),
                                             !.pending = NoKey]
                   /\ UNCHANGED qcall
            [] OTHER ->
                   /\ quick' = [quick EXCEPT !.collecting = c.collecting,
                                             !.samples = c.samples,
                                             !.pending = NoKey]
                   /\ UNCHANGED qcall

\* An iteration of the loop on any outcome of read() and any estimate.
QuickLoop ==
    \E ret \in BOOLEAN :
    \E g \in QuickGazes(QuickTool.cal_points[quick.index + 1]) : QuickIterate(ret, g)

NextQuick ==
    \/ QuickRunStart
    \/ \E key \in {ESC, SPACE} : PressKey(key)
    \/ CameraStops
    \/ QuickLoop

SpecQuick == InitQuick /\ [][NextQuick]_vars

\* The loop of _collect_point keeps running: as long as an iteration can
\* change the state, one is eventually taken.  Nothing is assumed of the
\* camera or of the user.
SpecQuickLive == InitQuick /\ [][NextQuick]_vars /\ WF_vars(QuickLoop)

\* ------------------------------------------------------------------------
\* VisualAssessmentTool.run_session: the preference test, the camera, the
\* clock and the keyboard
\* ------------------------------------------------------------------------

\* The session lasts SessionTicks ticks of the clock (duration), a
\* selection takes DwellTicks ticks (dwell_threshold), and the camera
\* delivers at most MaxAssessFrames frames.  The clock starts at 1 and never
\* runs backwards.
SessionTicks == 6

DwellTicks == 2

MaxAssessFrames == 3

\* Keys pressed during a session.
MaxAssessKeys == 1

\* Frames read during an assessment: no face; the eyes on the left target,
\* on the right target, and left of the left target (on it only under the
\* calibrated mapping of LegacyFile).
AssessFrames ==
    { NoFaceFrame,
      FaceFrame(478, Eye(100, -6, -2, 8, 8), Eye(200, -6, -2, 8, 8)),
      FaceFrame(478, Eye(100, 6, -2, 8, 8), Eye(200, 6, -2, 8, 8)),
      FaceFrame(478, Eye(100, -8, -2, 8, 8), Eye(200, -8, -2, 8, 8)) }

\* The calibration file found at the start: none, an old affine file, a
\* file tagged affine with 6 coefficients.
AssessFiles == { NoFile, LegacyFile, MistaggedFile }

AssessKeys == { NoKey, KEY_Q, KEY_R, KEY_UP }

\* The targets of the session: vat.create_preference_test() was called.
AssessTargets == CreatePreferenceTest(vat)

InitAssess ==
    /\ IdleFilter
    /\ IdleTracker
    /\ tool = NewCalibrationTool(9, SamplesPerPoint, ScreenWidth, ScreenHeight, POLYNOMIAL)
    /\ vat = NewAssessmentTool(ScreenWidth, ScreenHeight)
    /\ files \in AssessFiles
    /\ session = NoSession
    /\ ccall = NoCalibCall
    /\ ccalls = 0
    /\ runs = 0
    /\ IdleAssess

\* vat.load_calibration(), once, before the session.
AssessLoad ==
    /\ ~assess.active
    /\ acall.op = "none"
    /\ ccalls = 0
    /\ VatLoad

\* vat.run_session(duration) up to its loop; session_start is the clock's
\* reading.
AssessStart ==
    /\ ~assess.active
    /\ acall.op = "none"
    /\ Len(AssessTargets) > 0
    /\ assess' = [NoAssessment EXCEPT !.active = TRUE, !.session_start = 1, !.now = 1]
    /\ UNCHANGED <<acall, quickVars, filterVars, trackerVars,
                   tool, vat, files, session, ccall, ccalls, runs>>

\* One iteration of the loop of run_session: the clock has advanced by dt,
\* cap.read() returns ret and a frame whose detection result is fr, and
\* cv2.waitKey returns key.
AssessIterate(dt, ret, fr, key) ==
    /\ assess.active
    /\ ret => assess.frames < MaxAssessFrames
    /\ key # NoKey => ret /\ assess.keys < MaxAssessKeys
    /\ \E t \in {assess.now + dt} :
        IF t - assess.session_start >= SessionTicks
        THEN /\ assess' = [assess EXCEPT !.active = FALSE, !.now = t]
             /\ acall' = [NoIteration EXCEPT !.op = "ended", !.time = t,
                              !.current_target = assess.current_target,
                              !.dwell_start = assess.dwell_start,
                              !.streak = assess.streak]
             /\ UNCHANGED <<trk, gaze>>
        ELSE IF ~ret
        THEN /\ assess' = [assess EXCEPT !.now = t]
             /\ acall' = [NoIteration EXCEPT !.op = "no_frame", !.time = t,
                              !.current_target = assess.current_target,
                              !.dwell_start = assess.dwell_start,
                              !.streak = assess.streak]
             /\ UNCHANGED <<trk, gaze>>
        ELSE \E p \in {ProcessFrame(trk, fr)} :
             \E sp \in {GetCalibratedScreenPoint(vat, p.gaze)} :
             /\ gaze' = p.gaze
             /\ IF ~sp.ok
                THEN /\ trk' = p.trk
                     /\ assess' = [assess EXCEPT !.active = FALSE, !.now = t,
                                                 !.frames = @ + 1]
                     /\ acall' = [NoIteration EXCEPT !.op = "raised", !.time = t,
                                      !.current_target = assess.current_target,
                                      !.dwell_start = assess.dwell_start,
                                      !.streak = assess.streak]
                ELSE \E gazed \in {IF sp.point.some
                                   THEN CheckGazeOnTarget(AssessTargets,
                                                          sp.point.v[1], sp.point.v[2])
                                   ELSE NoTarget} :
                     \E d \in {DwellStep(assess.current_target, assess.dwell_start,
                                         gazed, t, DwellTicks)} :
                     \E sel \in {IF d.selected THEN Append(assess.selections, gazed)
                                 ELSE assess.selections} :
                     \E k \in {HandleKey(p.trk, sel, key)} :
                     /\ trk' = k.trk
                     /\ assess' =
                            [assess EXCEPT
                                !.active = ~k.quit,
                                !.now = t,
                                !.frames = @ + 1,
                                !.keys = IF key # NoKey THEN @ + 1 ELSE @,
                                !.current_target = d.current_target,
                                !.dwell_start = d.dwell_start,
                                !.selections = k.selections,
                                !.events =
                                    IF d.selected
                                    THEN Append(@, [target_id |-> gazed,
                                                    timestamp |-> t - assess.session_start,
                                                    dwell_time |-> t - assess.dwell_start.v,
                                                    screen |-> sp.point.v])
                                    ELSE @,
                                !.streak = StreakAfter(@, gazed, t, d.selected)]
                     /\ acall' = [op |-> "frame", time |-> t, point |-> sp.point,
                                  gazed |-> gazed, selected |-> d.selected, key |-> key,
                                  current_target |-> assess.current_target,
                                  dwell_start |-> assess.dwell_start,
                                  streak |-> assess.streak]
    /\ UNCHANGED <<tcall, tcalls, quickVars, filterVars,
                   tool, vat, files, session, ccall, ccalls, runs>>

NextAssess ==
    \/ AssessLoad
    \/ AssessStart
    \/ \E dt \in {1, 2}, ret \in BOOLEAN, fr \in AssessFrames, key \in AssessKeys :
           AssessIterate(dt, ret, fr, key)

SpecAssess == InitAssess /\ [][NextAssess]_vars

\* ------------------------------------------------------------------------
\* Properties of the filters (SpecFilter)
\* ------------------------------------------------------------------------

\* The last call was update on a filter that had no measurement yet.
FirstUpdate == fcall.op = "update" /\ ~fcall.wasInit

\* State vector and initialized flag of the filter the last call was made on.
CalledState == IF fcall.obj = "akf" THEN akf.state ELSE kf.state

CalledInitialized == IF fcall.obj = "akf" THEN akf.initialized ELSE kf.initialized

\* n / ONE is a single precision number: n has at most 24 significant bits.
IsSingle(n) == n % UlpOf(Abs(n)) = 0

\* C1, as the specification states it: the first update(m) of either filter
\* returns exactly m, leaves the state at position m with zero velocity, and
\* marks the filter initialized.
C1_FirstUpdateReturnsExactly ==
    FirstUpdate =>
        /\ fcall.ret = fcall.arg
        /\ CalledState = <<fcall.arg[1], fcall.arg[2], 0, 0>>
        /\ CalledInitialized

\* C1, amended: the first update(m) of either filter, fresh or just reset,
\* returns m converted to single precision (a single precision number
\* nearest to m, which is m itself whenever m is one), leaves the state at
\* exactly the returned position with zero velocity, and marks the filter
\* initialized.
C1_FirstUpdateReturnsSingle ==
    FirstUpdate =>
        /\ \A i \in 1..2 :
              /\ IsSingle(fcall.ret[i])
              /\ 2 * Abs(fcall.ret[i] - fcall.arg[i]) <= UlpOf(Abs(fcall.arg[i]))
              /\ IsSingle(fcall.arg[i]) => fcall.ret[i] = fcall.arg[i]
        /\ CalledState = <<fcall.ret[1], fcall.ret[2], 0, 0>>
        /\ CalledInitialized

\* A first update on a filter that had been measured and then reset, with a
\* measurement single precision cannot hold: the value returned differs
\* from it.
C1_FirstUpdateAfterReset ==
    /\ FirstUpdate
    /\ fcall.prev = <<fcall.obj, "reset", TRUE>>
    /\ fcall.ret # fcall.arg
    /\ CalledInitialized

\* ------------------------------------------------------------------------
\* Properties of the calibration (SpecCalib)
\* ------------------------------------------------------------------------

\* The last call ran the fit step: _compute_calibration called directly, or
\* a run_calibration that was not cancelled.
FitAttempted ==
    \/ ccall.op = "_compute_calibration"
    \/ ccall.op = "run_calibration" /\ ~ccall.cancelled

\* The CalibrationTool the last call worked on, and the model it stored
\* before the fit step of that call: for the VisualAssessmentTool the tool
\* is the one its run_calibration created, which starts without a model.
CalledTool == IF ccall.obj = "vat" THEN vat.calibrator.v ELSE tool

ModelBeforeFit ==
    IF ccall.obj = "vat" THEN Model(AssessmentCalibrator(vat, 9)) ELSE ccall.before

\* C2: a fit attempt with fewer points than the mode requires (4 affine, 6
\* polynomial) leaves mode, transform_x, transform_y and transform_matrix as
\* they were before the attempt.
C2_RefusedFitKeepsModel ==
    (FitAttempted /\ ccall.points < MinPoints(ModelBeforeFit.mode)) =>
        Model(CalledTool) = ModelBeforeFit

\* A fit attempt without any point on a tool that holds a loaded model: the
\* model is still the loaded one.
C2_RefusedFitOnLoadedModel ==
    /\ ccall.op = "_compute_calibration"
    /\ ccall.points < MinPoints(ccall.before.mode)
    /\ ccall.before.transform_matrix.some
    /\ Model(tool) = ccall.before

\* C3: a calibration run whose fit step did not fit a model (too few points
\* for the mode) returns failure to its caller.
C3_RunWithoutFitFails ==
    (ccall.op = "run_calibration" /\ ccall.fit # "fitted") => ~ccall.ret

\* C4: gaze_to_screen returns integer coordinates on the screen, for every
\* gaze vector and whatever model the tool stores.
C4_GazeToScreenOnScreen ==
    ccall.op = "gaze_to_screen" =>
        /\ ccall.out.ok
        /\ 0 <= ccall.out.v[1] /\ ccall.out.v[1] <= tool.screen_width - 1
        /\ 0 <= ccall.out.v[2] /\ ccall.out.v[2] <= tool.screen_height - 1

\* C5: a cancelled calibration session leaves the model that was stored
\* before it in place: in the CalibrationTool, and in a VisualAssessmentTool
\* that held a calibrator before the session.
C5_CancelKeepsModel ==
    (ccall.op = "run_calibration" /\ ccall.cancelled) =>
        IF ccall.obj = "tool"
        THEN Model(tool) = ccall.before
        ELSE ccall.had => vat.calibrator.some /\ Model(vat.calibrator.v) = ccall.before

\* A CalibrationTool holding what save_calibration wrote to the file f: the
\* tool that saved it, as far as gaze_to_screen goes.
SaverOf(f) ==
    [NewCalibrationTool(9, SamplesPerPoint, f.screen_width, f.screen_height, f.mode.v)
        EXCEPT !.transform_x = f.transform_x,
               !.transform_y = f.transform_y,
               !.transform_matrix = Present(<<f.transform_x.v, f.transform_y.v>>)]

\* C6: after a successful load of a file written by save_calibration the
\* loading tool has the saved mode, coefficient vectors and screen size, and
\* its gaze_to_screen agrees with the saving tool's.
C6_LoadRestoresSaved ==
    (ccall.op = "load_calibration" /\ ccall.ret /\ files.saved) =>
        /\ CalledTool.mode = files.mode.v
        /\ CalledTool.transform_x = files.transform_x
        /\ CalledTool.transform_y = files.transform_y
        /\ CalledTool.screen_width = files.screen_width
        /\ CalledTool.screen_height = files.screen_height
        /\ \A g \in GazeInputs : GazeToScreen(CalledTool, g) = GazeToScreen(SaverOf(files), g)

\* C7: a load_calibration that returns False leaves mode, transform_x,
\* transform_y and transform_matrix of the tool as they were.
C7_FailedLoadKeepsModel ==
    (ccall.obj = "tool" /\ ccall.op = "load_calibration" /\ ~ccall.ret) =>
        Model(tool) = ccall.before

\* The mode tag of t and the lengths of its two coefficient vectors agree.
TagMatchesLength(t) ==
    t.transform_matrix.some =>
        /\ Len(t.transform_x.v) = DesignColumns(t.mode)
        /\ Len(t.transform_y.v) = DesignColumns(t.mode)

\* C8: whenever a tool stores a model, each coefficient vector has 3
\* entries in affine mode and 6 in polynomial mode.
C8_TagMatchesLength ==
    /\ TagMatchesLength(tool)
    /\ vat.calibrator.some => TagMatchesLength(vat.calibrator.v)

\* ------------------------------------------------------------------------
\* Properties of the tracker (SpecConfig, SpecTracker)
\* ------------------------------------------------------------------------

\* C9: the sensitivities lie in [0.5, 5.0] and the offsets in [-1, 1] in
\* every state of the tracker, from construction on.
C9_TuningInRange ==
    /\ ONE \div 2 <= trk.sensitivity_x /\ trk.sensitivity_x <= 5 * ONE
    /\ ONE \div 2 <= trk.sensitivity_y /\ trk.sensitivity_y <= 5 * ONE
    /\ -ONE <= trk.offset_x /\ trk.offset_x <= ONE
    /\ -ONE <= trk.offset_y /\ trk.offset_y <= ONE

\* C10: in the GazeData of every frame, confidence is 1.0 exactly when both
\* eye vectors are present, 0.7 exactly when one is, 0.0 exactly when none
\* is; no other value occurs, and the combined vector is present exactly
\* when confidence is positive.
C10_ConfidenceLevels ==
    /\ gaze.confidence \in {0, OneEyeConfidence, ONE}
    /\ gaze.confidence = ONE <=> (gaze.left_gaze.some /\ gaze.right_gaze.some)
    /\ gaze.confidence = OneEyeConfidence <=> (gaze.left_gaze.some # gaze.right_gaze.some)
    /\ gaze.confidence = 0 <=> (~gaze.left_gaze.some /\ ~gaze.right_gaze.some)
    /\ gaze.combined_gaze.some <=> gaze.confidence > 0

\* A frame in which only the left eye gave a vector: confidence 0.7 and a
\* combined vector.
C10_OneEyeFrame ==
    /\ tcall.op = "process_frame"
    /\ gaze.left_gaze.some /\ ~gaze.right_gaze.some
    /\ gaze.confidence = OneEyeConfidence
    /\ gaze.combined_gaze.some

\* The last call was process_frame.
FrameProcessed == tcall.op = "process_frame"

\* C11: on a frame where exactly one eye produced a vector, the combined
\* vector is that eye's filtered vector and the combined filter (state,
\* covariance, initialized flag) is as it was before the frame.
C11_OneEyeBypassesCombined ==
    (FrameProcessed /\ gaze.left_gaze.some # gaze.right_gaze.some) =>
        /\ gaze.combined_gaze =
               (IF gaze.left_gaze.some THEN gaze.left_gaze ELSE gaze.right_gaze)
        /\ trk.combined_kalman = tcall.before.combined_kalman

\* A one-eye frame that follows a two-eye frame: the combined filter holds
\* an estimate, and the eye's vector differs from it.
C11_OneEyeAfterBothEyes ==
    /\ FrameProcessed
    /\ gaze.left_gaze.some # gaze.right_gaze.some
    /\ tcall.before.combined_kalman.initialized
    /\ gaze.combined_gaze.v # Pos(tcall.before.combined_kalman)

\* C12: on a frame where neither eye produced a vector, no combined vector
\* and no screen point is emitted, and the retained previous screen point
\* and the three filters are as they were before the frame.
C12_NoEyeFrameChangesNothing ==
    (FrameProcessed /\ ~gaze.left_gaze.some /\ ~gaze.right_gaze.some) =>
        /\ ~gaze.combined_gaze.some
        /\ ~gaze.screen_point.some
        /\ trk.prev_screen_point = tcall.before.prev_screen_point
        /\ trk.left_kalman = tcall.before.left_kalman
        /\ trk.right_kalman = tcall.before.right_kalman
        /\ trk.combined_kalman = tcall.before.combined_kalman

\* A frame with a face in which both eyes blink, after frames that left a
\* screen point and initialized all three filters.
C12_BlinkAfterTracking ==
    /\ FrameProcessed
    /\ tcall.fr.face
    /\ ~gaze.left_gaze.some /\ ~gaze.right_gaze.some
    /\ tcall.before.prev_screen_point.some
    /\ tcall.before.left_kalman.initialized
    /\ tcall.before.right_kalman.initialized
    /\ tcall.before.combined_kalman.initialized

\* The lid landmarks of an eye, and the eye's fields in GazeData and in the
\* tracker.
TopIdx(eye) == IF eye = "left" THEN LEFT_EYE_TOP ELSE RIGHT_EYE_TOP

BottomIdx(eye) == IF eye = "left" THEN LEFT_EYE_BOTTOM ELSE RIGHT_EYE_BOTTOM

GazeOf(g, eye) == IF eye = "left" THEN g.left_gaze ELSE g.right_gaze

FilterOf(t, eye) == IF eye = "left" THEN t.left_kalman ELSE t.right_kalman

\* The eye's lids are less than 5 px apart in the frame.
Blinking(lm, eye) ==
    /\ HasLandmark(lm, TopIdx(eye)) /\ HasLandmark(lm, BottomIdx(eye))
    /\ Abs(EyeOf(lm, OuterIdx(eye)).bottom[2] - EyeOf(lm, OuterIdx(eye)).top[2])
           < BlinkThreshold

\* A landmark the estimator needs for the eye is missing: a corner, or the
\* iris centre together with one of the lids that stand in for it.
LacksLandmark(lm, eye) ==
    \/ ~HasLandmark(lm, OuterIdx(eye))
    \/ ~HasLandmark(lm, InnerIdx(eye))
    \/ /\ ~HasLandmark(lm, IrisIdx(eye))
       /\ ~(HasLandmark(lm, TopIdx(eye)) /\ HasLandmark(lm, BottomIdx(eye)))

\* The eye's corners are less than 1 px apart.
Degenerate(lm, eye) ==
    /\ HasLandmark(lm, OuterIdx(eye)) /\ HasLandmark(lm, InnerIdx(eye))
    /\ Hypot((EyeOf(lm, OuterIdx(eye)).inner[1] - EyeOf(lm, OuterIdx(eye)).outer[1]) * ONE,
             (EyeOf(lm, OuterIdx(eye)).inner[2] - EyeOf(lm, OuterIdx(eye)).outer[2]) * ONE)
           < ONE

Unreadable(lm, eye) ==
    Blinking(lm, eye) \/ Degenerate(lm, eye) \/ LacksLandmark(lm, eye)

\* C13: for an eye that is blinking, degenerate or lacking a landmark in
\* the frame, process_frame emits no vector and leaves the eye's filter as
\* it was; every other eye of the frame is processed and gets its vector.
C13_UnreadableEyeSkipped ==
    (FrameProcessed /\ tcall.fr.face) =>
        \A eye \in Eyes :
            IF Unreadable(tcall.fr.landmarks, eye)
            THEN /\ ~GazeOf(gaze, eye).some
                 /\ FilterOf(trk, eye) = FilterOf(tcall.before, eye)
            ELSE GazeOf(gaze, eye).some

\* The last call was the estimator alone.
Estimated == tcall.op = "_get_iris_position"

\* C14: every vector _get_iris_position returns has both components in
\* [-1, 1], whatever the landmarks, sensitivities and offsets, with or
\* without iris landmarks; for an eye less than 1 px wide it returns none.
C14_EstimateInUnitSquare ==
    Estimated =>
        /\ tcall.out.some =>
               \A i \in 1..2 : -ONE <= tcall.out.v[i] /\ tcall.out.v[i] <= ONE
        /\ Degenerate(tcall.fr.landmarks, tcall.eye) => ~tcall.out.some

\* An estimate on the eye-contour path (no iris landmarks) that the clip
\* cut down to 1, with the sensitivity outside its documented range.
C14_ClippedContourEstimate ==
    /\ Estimated
    /\ ~HasLandmark(tcall.fr.landmarks, IrisIdx(tcall.eye))
    /\ tcall.out.some
    /\ tcall.out.v[1] = ONE
    /\ tcall.before.sensitivity_x > 5 * ONE

\* The mapped point of the vector a frame returned, before the smoothing.
RawPoint(t, g) ==
    <<LinearMap(g.v[1], t.screen_width), LinearMap(g.v[2], t.screen_height)>>

Between(a, x, b) == (a <= x /\ x <= b) \/ (b <= x /\ x <= a)

\* alpha * new + (1 - alpha) * previous computed exactly, with none of the
\* roundings of the float arithmetic.
BlendExactly(alpha, new, previous) ==
    SignedSum(SignedProduct(alpha, new),
              SignedProduct(WMinus(WideOne, alpha), previous))

\* More than the three roundings of the blend can add up to: 2^-36.
RoundingSlack == <<0, 0, 1, 0>>

\* emitted is the truncation of the blend, give or take the rounding of
\* the float arithmetic.
TruncatedBlend(alpha, new, previous, emitted) ==
    \E e \in {BlendExactly(alpha, new, previous)} :
        /\ DblInt(SignedSum(e, [neg |-> TRUE, mag |-> RoundingSlack])) <= emitted
        /\ emitted <= DblInt(SignedSum(e, [neg |-> FALSE, mag |-> RoundingSlack]))

\* The smoothing stage as stated: the truncated blend of the mapped point
\* and the previous one, lying between the two.
SmoothedAsStated(t, raw, previous, emitted) ==
    \A i \in 1..2 :
        /\ TruncatedBlend(t.smoothing_factor, raw[i], previous[i], emitted[i])
        /\ Between(previous[i], emitted[i], raw[i])

\* C15: a frame with a combined vector emits the truncated blend
\* alpha * raw + (1 - alpha) * previous of the mapped point and the point
\* emitted before it, which lies between the two on each axis; with no
\* previous point since the last reset_filters it emits the mapped point
\* itself; and the emitted point becomes the previous one.
C15_SmoothedBetweenPreviousAndRaw ==
    (FrameProcessed /\ gaze.combined_gaze.some) =>
        /\ gaze.screen_point.some
        /\ trk.prev_screen_point = gaze.screen_point
        /\ IF tcall.before.prev_screen_point.some
           THEN SmoothedAsStated(tcall.before,
                                 RawPoint(tcall.before, gaze.combined_gaze),
                                 tcall.before.prev_screen_point.v,
                                 gaze.screen_point.v)
           ELSE gaze.screen_point.v = RawPoint(tcall.before, gaze.combined_gaze)

\* A filter as its constructor leaves the fields that reset assigns.
Reinitialised(f) ==
    /\ f.state = <<0, 0, 0, 0>>
    /\ f.P = Eye4(ONE)
    /\ ~f.initialized

\* C16: reset leaves either filter with state zero, covariance identity
\* and uninitialized (the adaptive one with an empty velocity history),
\* and every update or predict returns what the same call returns on the
\* filter that was constructed at the last reset and fed the same calls.
C16_ResetIsReinitialisation ==
    /\ scall.op = "reset" =>
           /\ Reinitialised(kf)
           /\ Reinitialised(akf)
           /\ akf.velocity_history = << >>
    /\ scall.op \in {"update", "predict"} =>
           /\ scall.kf = scall.fresh_kf
           /\ scall.akf = scall.fresh_akf

\* The second update after a reset of filters that were moving: both
\* filters return a position that is not the measurement.
C16_FilteredAfterReset ==
    /\ slog.moved
    /\ slog.fed >= 2
    /\ scall.op = "update"
    /\ scall.kf # scall.arg
    /\ scall.akf # scall.arg

\* The distance between a returned position and the measurement.
Residual(ret, m) == Hypot(ret[1] - m[1], ret[2] - m[2])

\* An update of a stream that has fed one and the same measurement, and
\* nothing else, since the filters were uninitialized.
SteadyUpdate == scall.op = "update" /\ slog.steady

\* C17: while one measurement m is fed again and again to a filter that
\* started uninitialized, the distance between the returned position and
\* m never grows from one update to the next, and the returned position
\* is as close to m as single precision allows.
C17_ResidualNeverGrows ==
    SteadyUpdate =>
        /\ slog.fed >= 2 =>
               /\ Residual(scall.kf, scall.arg) <= Residual(scall.prev_kf, scall.arg)
               /\ Residual(scall.akf, scall.arg) <= Residual(scall.prev_akf, scall.arg)
        /\ Residual(scall.kf, scall.arg) <= Residual(Float32Vec(scall.arg), scall.arg)
        /\ Residual(scall.akf, scall.arg) <= Residual(Float32Vec(scall.arg), scall.arg)

\* The fourth update in a row with the measurement (0.5, -1.0).
C17_FourthSteadyUpdate ==
    /\ SteadyUpdate
    /\ slog.fed >= 4
    /\ scall.arg = <<ONE \div 2, -ONE>>

\* The last n entries of a sequence (all of it when it has fewer).
LastOf(s, n) == SubSeq(s, Max(1, Len(s) - n + 1), Len(s))

\* The velocities the history should hold: those of the five most recent
\* filtered updates since the last reset.
RecentVelocities == LastOf(slog.velocities, 5)

\* C20: the velocity history of the adaptive filter holds the velocity
\* magnitudes of the most recent filtered updates since the last reset,
\* oldest first and never more than five; the smoothed velocity is their
\* mean, or the velocity of the state when there is none; and is_dwelling
\* is true exactly when the smoothed velocity is at most the low
\* threshold.
C20_HistoryIsRecentVelocities ==
    /\ akf.velocity_history = RecentVelocities
    /\ Len(akf.velocity_history) <= 5
    /\ AKF_get_smoothed_velocity(akf) =
           IF RecentVelocities = << >>
           THEN Hypot(akf.state[3], akf.state[4])
           ELSE Mean(RecentVelocities)
    /\ AKF_is_dwelling(akf) <=> AKF_get_smoothed_velocity(akf) <= LowVelocityThreshold

\* A seventh filtered update in a row has pushed the two oldest velocities
\* out of a history of moving and of resting updates.
C20_HistoryOverflowed ==
    /\ Len(slog.velocities) >= 7
    /\ Len(akf.velocity_history) = 5
    /\ slog.velocities[1] # slog.velocities[6]
    /\ ~AKF_is_dwelling(akf)

NoiseEvaluated == ncall.op = "_get_adaptive_measurement_noise"

\* Equal up to the rounding of the arithmetic: eight units of the scale,
\* which is 0.0005.
WithinRounding(a, b) == Abs(a - b) <= 8

\* The multiplier as stated: dwell up to the low threshold, rapid from the
\* high threshold on, and dwell + (3t^2 - 2t^3)(rapid - dwell) between
\* them, with t = (v - low) / (high - low).
StatedMultiplier(low, high, dwell, rapid, v) ==
    IF v <= low THEN dwell
    ELSE IF v >= high THEN rapid
    ELSE Only({ dwell + FixMul(3 * FixMul(t, t) - 2 * FixMul(FixMul(t, t), t),
                               rapid - dwell)
                : t \in {FixDiv(v - low, high - low)} })

\* The noise returned at velocity v by the filter with the default
\* arguments is the multiple m of its base noise.
DefaultNoiseAt(v, m) ==
    (/\ ncall.f.low_velocity_threshold = LowVelocityThreshold
     /\ ncall.f.base_measurement_noise = DefaultMeasurementNoise
     /\ ncall.velocity = v)
        => ncall.noise = FixMul(DefaultMeasurementNoise, m)

\* C18: the adaptive measurement noise is the base noise times the
\* multiplier stated for the smoothed velocity; with the default arguments
\* that is 3.0 x base at velocity 0.01, 0.3 x base at 0.20 and 1.65 x base
\* at 0.085.
C18_NoiseIsBaseTimesMultiplier ==
    NoiseEvaluated =>
        /\ ncall.noise = FixMul(ncall.f.base_measurement_noise, ncall.multiplier)
        /\ ncall.f.current_measurement_noise = ncall.noise
        /\ WithinRounding(ncall.multiplier,
                          StatedMultiplier(ncall.f.low_velocity_threshold,
                                           ncall.f.high_velocity_threshold,
                                           ncall.f.dwell_measurement_multiplier,
                                           ncall.f.rapid_measurement_multiplier,
                                           ncall.velocity))
        /\ DefaultNoiseAt(164, 3 * ONE)
        /\ DefaultNoiseAt(3277, 4915)
        /\ DefaultNoiseAt(1393, 27034)

\* The default filter evaluated at velocity 0.085, between its thresholds.
C18_DefaultAtMidpoint ==
    /\ NoiseEvaluated
    /\ ncall.f.low_velocity_threshold = LowVelocityThreshold
    /\ ncall.velocity = 1393
    /\ ncall.noise = 271

\* The steepest descent of the multiplier over one unit of velocity, at
\* the middle between the thresholds: 1.5 (dwell - rapid) / (high - low).
SteepestStep(f) ==
    (3 * (f.dwell_measurement_multiplier - f.rapid_measurement_multiplier))
        \div (2 * (f.high_velocity_threshold - f.low_velocity_threshold)) + 1

ActiveDataAfter ==
    IF session.active = "tool" THEN tool'.calibration_data
    ELSE vat'.calibrator.v.calibration_data

\* The entries recorded so far are those of the first targets of the
\* layout, one each and in its order, with samples_per_point samples each.
RecordedInOrder(a, data) ==
    /\ Len(data) <= Len(a.calibration_points)
    /\ \A i \in 1..Len(data) :
           /\ data[i].point = a.calibration_points[i]
           /\ Len(data[i].samples) = a.samples_per_point

\* A step of a run in progress.  The targets before the one shown have been
\* recorded, and only they.  A frame without a combined gaze vector adds no
\* sample and records nothing.  An entry is recorded only while recording
\* is on, by a frame with a combined gaze vector that brings the samples of
\* the target shown to samples_per_point, and it holds these samples.  A run
\* that returns True has recorded every target.
RecordingStep ==
    session.active # "none" =>
        /\ Len(ActiveTool.calibration_data) = session.index
        /\ RecordedInOrder(ActiveTool, ActiveTool.calibration_data)
        /\ Len(session.samples) < ActiveTool.samples_per_point
        /\ Len(session.samples) > 0 => session.collecting
        /\ ~gaze'.combined_gaze.some =>
               /\ session'.active # "none" =>
                      /\ session'.samples = session.samples
                      /\ ActiveDataAfter = ActiveTool.calibration_data
               /\ Len(ActiveDataAfter) <= Len(ActiveTool.calibration_data)
        /\ Len(ActiveDataAfter) > Len(ActiveTool.calibration_data) =>
               /\ session.collecting
               /\ gaze'.combined_gaze.some
               /\ Len(session.samples) + 1 = ActiveTool.samples_per_point
               /\ ActiveDataAfter =
                      Append(ActiveTool.calibration_data,
                             [point |-> ActiveTool.calibration_points[session.index + 1],
                              samples |-> Append(session.samples, gaze'.combined_gaze.v)])
        /\ (ccall'.op = "run_calibration" /\ ccall'.ret) =>
               /\ Len(ActiveDataAfter) = Len(ActiveTool.calibration_points)
               /\ RecordedInOrder(ActiveTool, ActiveDataAfter)

\* C23: a target is recorded only after SPACE started the recording for it
\* and exactly samples_per_point frames with a combined gaze vector were
\* sampled, frames without one contributing nothing; the targets are
\* recorded in the order of the layout, each at most once, and a run that
\* returns True has recorded exactly one entry per target.
C23_OneEntryPerTargetInOrder == [][RecordingStep]_vars

\* A run on the directly driven tool has returned True with all five
\* targets recorded.
C23_CompletedRun ==
    /\ ccall.obj = "tool"
    /\ ccall.op = "run_calibration"
    /\ ccall.ret
    /\ Len(tool.calibration_data) = Len(tool.calibration_points)
    /\ Len(tool.calibration_data) = 5

\* C24: a load that succeeds on a file without a mode tag sets the mode
\* from the length of the coefficient vector, polynomial for 6 and affine
\* for 3; on a file with a mode tag it sets the mode the tag names.
C24_ModeFromTagOrLength ==
    (ccall.op = "load_calibration" /\ ccall.ret) =>
        /\ (~files.mode.some /\ Len(files.transform_x.v) = 6)
               => CalledTool.mode = POLYNOMIAL
        /\ (~files.mode.some /\ Len(files.transform_x.v) = 3)
               => CalledTool.mode = AFFINE
        /\ (files.mode.some /\ files.mode.v = "polynomial")
               => CalledTool.mode = POLYNOMIAL
        /\ (files.mode.some /\ files.mode.v = "affine")
               => CalledTool.mode = AFFINE

\* The affine tool has loaded an untagged file with 6 coefficients per axis
\* and is polynomial now.
C24_LegacyFileSwitchedMode ==
    /\ ccall.obj = "tool"
    /\ ccall.op = "load_calibration"
    /\ ccall.ret
    /\ ~files.mode.some
    /\ Len(files.transform_x.v) = 6
    /\ ccall.before.mode = AFFINE
    /\ tool.mode = POLYNOMIAL

\* The step of a run in which SPACE starts the recording for the target
\* shown: reset_filters is called in it, after process_frame has returned
\* the estimate gaze' of the frame.
RecordingStarts ==
    /\ session.active # "none"
    /\ ~session.collecting
    /\ session'.active = session.active
    /\ session'.index = session.index
    /\ session'.collecting

\* C26: every sample recorded for a target was computed by filters that
\* had been reset when the recording for that target started: the estimate
\* of the frame on which SPACE is read, computed before reset_filters, is
\* not among the samples.
C26_SamplesComputedAfterReset ==
    [][RecordingStarts => session'.samples = << >>]_vars

\* C27: every screen point process_frame returns lies on the screen:
\* 0 <= x <= screen_width - 1 and 0 <= y <= screen_height - 1.
C27_ScreenPointOnScreen ==
    gaze.screen_point.some =>
        /\ 0 <= gaze.screen_point.v[1]
        /\ gaze.screen_point.v[1] <= trk.screen_width - 1
        /\ 0 <= gaze.screen_point.v[2]
        /\ gaze.screen_point.v[2] <= trk.screen_height - 1

\* ------------------------------------------------------------------------
\* The covariance of the filters (SpecStream)
\* ------------------------------------------------------------------------

\* P equals its transpose.
Symmetric(P) == \A i, j \in 1..4 : P[i][j] = P[j][i]

\* P equals its transpose up to the rounding of the products that made it:
\* the gain is rounded to half a unit of 1/ONE and multiplies entries of the
\* predicted covariance of up to 10.0, which leaves up to 8 units.
SymmetricUpToRounding(P) == \A i, j \in 1..4 : Abs(P[i][j] - P[j][i]) <= 8

\* The x and the y components are uncorrelated: P is made of the two blocks
\* on the indices (1, 3) and (2, 4).
Decoupled(P) ==
    \A i, j \in 1..2 : P[2 * i - 1][2 * j] = 0 /\ P[2 * j][2 * i - 1] = 0

\* The determinant of the block of P on the indices (i, i + 2) is not
\* negative (entries scaled below 2^15 first, so that the products fit).
BlockDeterminantNonNegative(P, i) ==
    \E s \in {ShiftFor(Max(Max(P[i][i], P[i + 2][i + 2]),
                           Max(Abs(P[i][i + 2]), Abs(P[i + 2][i]))))} :
        (P[i][i] \div s) * (P[i + 2][i + 2] \div s)
            - TruncDiv(P[i][i + 2], s) * TruncDiv(P[i + 2][i], s) >= 0

\* x^T P x >= 0 for every x, for a decoupled P: in each block the diagonal
\* and the determinant are not negative.
PositiveSemiDefinite(P) ==
    /\ Decoupled(P)
    /\ \A i \in 1..4 : P[i][i] >= 0
    /\ \A i \in 1..2 : BlockDeterminantNonNegative(P, i)

\* C25 as stated: after any sequence of predict, update and reset the
\* covariance P of either filter is symmetric and positive semi-definite.
C25_CovarianceSymmetricPSD ==
    \A f \in {kf, akf} : Symmetric(f.P) /\ PositiveSemiDefinite(f.P)

\* C25, amended: after any sequence of predict, update and reset the
\* covariance P of either filter is symmetric up to rounding error and
\* positive semi-definite.
C25_CovarianceSymmetricUpToRounding ==
    \A f \in {kf, akf} : SymmetricUpToRounding(f.P) /\ PositiveSemiDefinite(f.P)

\* Both filters have been through updates, a predict and a reset, and hold
\* a covariance with correlated position and velocity.
C25_CovarianceAfterAllCalls ==
    /\ slog.resets >= 1
    /\ slog.predicts >= 1
    /\ slog.fed >= 3
    /\ \A f \in {kf, akf} : f.P[1][3] > 0 /\ f.P[1][1] < ONE

\* The measurement and process noise an update of f with m uses.
NoiseUsed(f, m) ==
    Only({ <<u.current_measurement_noise, u.current_process_noise>>
           : u \in {AKF_update(f, m).filter} })

\* C29: the noise an update of the adaptive filter uses does not depend on
\* the measurement it is given; the first filtered update after
\* initialization or reset uses the dwell multiplier for the measurement
\* noise and the factor 0.5 for the process noise, however far the second
\* measurement is from the first; and the process noise is always between
\* 0.5 and 2.0 times its base value.
C29_NoiseFromEarlierVelocities ==
    /\ akf.initialized =>
           \A m1, m2 \in StreamMeasurements : NoiseUsed(akf, m1) = NoiseUsed(akf, m2)
    /\ (scall.op = "update" /\ slog.fed = 2) =>
           /\ akf.current_measurement_noise =
                  FixMul(akf.base_measurement_noise, akf.dwell_measurement_multiplier)
           /\ akf.current_process_noise = FixMul(akf.base_process_noise, ONE \div 2)
    /\ FixMul(akf.base_process_noise, ONE \div 2) <= akf.current_process_noise
    /\ akf.current_process_noise <= FixMul(akf.base_process_noise, 2 * ONE)

\* The first filtered update after a reset, with a measurement more than
\* 1.0 away from the one before it.
C29_FarSecondMeasurementAfterReset ==
    /\ slog.resets >= 1
    /\ scall.op = "update"
    /\ slog.fed = 2
    /\ ~slog.steady
    /\ Hypot(scall.arg[1] - scall.prev_akf[1], scall.arg[2] - scall.prev_akf[2]) > ONE
    /\ akf.current_measurement_noise =
           FixMul(akf.base_measurement_noise, akf.dwell_measurement_multiplier)

\* ------------------------------------------------------------------------
\* Properties of the quick calibration (SpecQuick, SpecQuickLive)
\* ------------------------------------------------------------------------

\* The mean over the collected points of expected - measured on one axis,
\* expected being (target / dimension) * 2 - 1.
MeanCorrection(measurements, axis) ==
    Mean([i \in 1..Len(measurements) |->
             (IF axis = 1
              THEN ExpectedComponent(QuickTool.cal_points[i].x, QuickTool.screen_width)
              ELSE ExpectedComponent(QuickTool.cal_points[i].y, QuickTool.screen_height))
             - measurements[i].measured[axis]])

\* Every measured vector equals its expected value.
MeasuredAsExpected(measurements) ==
    \A i \in 1..Len(measurements) : measurements[i].measured = measurements[i].expected

\* The pair a completed run returns is, per axis, the tracker's offset plus
\* the mean correction, clipped to [-1, 1].
QuickFormulaHolds ==
    (qcall.done /\ ~qcall.cancelled)
        => \A axis \in 1..2 :
               qcall.ret[axis] =
                   Clip(qcall.offset[axis] + MeanCorrection(qcall.measurements, axis),
                        -ONE, ONE)

\* C21: a completed quick calibration returns, per axis, the clip to
\* [-1, 1] of the tracker's offset plus the mean over the five points of
\* expected - measured; and when every measured vector equals its expected
\* value, it returns the tracker's offsets unchanged.
C21_CorrectionAddedToOffset ==
    /\ QuickFormulaHolds
    /\ (qcall.done /\ ~qcall.cancelled /\ MeasuredAsExpected(qcall.measurements))
           => qcall.ret = qcall.offset

\* C22: a collection loop always eventually ends: once ESC is pressed, or
\* once the camera has stopped delivering frames, the run in progress
\* returns.
C22_CollectionEnds ==
    (quick.active /\ (quick.pending = ESC \/ quick.camera = "stuck")) ~> ~quick.active


\* ------------------------------------------------------------------------
\* Properties of the assessment session (SpecAssess)
\* ------------------------------------------------------------------------

\* The target of AssessTargets with this id.
TargetNamed(id) == Only({ AssessTargets[i] : i \in { k \in 1..Len(AssessTargets) : AssessTargets[k].id = id } })

\* The last iteration processed a frame.
IterationProcessed == acall.op = "frame"

\* The dwell timer of the code is the one the gaze history defines: it is
\* running for the target the gaze has stayed on, since the first frame of
\* that stay or the last selection in it.
TimerFollowsGaze ==
    /\ assess.current_target = assess.streak.target
    /\ assess.dwell_start =
           IF assess.streak.target = NoTarget THEN NoTime ELSE Time(assess.streak.since)

\* A selection is recorded only with the gaze on the target, the gaze on
\* that target in every processed frame since the timer was started, and
\* DwellTicks gone by since that start; it restarts the timer.
SelectionAfterDwell ==
    (IterationProcessed /\ acall.selected) =>
        /\ acall.gazed # NoTarget
        /\ acall.point.some
        /\ OnTarget(TargetNamed(acall.gazed), acall.point.v[1], acall.point.v[2])
        /\ acall.streak.target = acall.gazed
        /\ acall.dwell_start = Time(acall.streak.since)
        /\ acall.time - acall.streak.since >= DwellTicks
        /\ assess.dwell_start = Time(acall.time)
        /\ assess.current_target = acall.gazed
        /\ assess.events # << >>
        /\ assess.events[Len(assess.events)].target_id = acall.gazed
        /\ assess.events[Len(assess.events)].timestamp = acall.time - assess.session_start
        /\ acall.key # KEY_R =>
               /\ assess.selections # << >>
               /\ assess.selections[Len(assess.selections)] = acall.gazed

\* A frame with the gaze on no target, or on another target than the one
\* the timer was running for, restarts the timer and selects nothing.
OtherGazeRestartsTimer ==
    (IterationProcessed /\ acall.gazed # acall.streak.target) =>
        /\ ~acall.selected
        /\ assess.current_target = acall.gazed
        /\ assess.dwell_start =
               IF acall.gazed = NoTarget THEN NoTime ELSE Time(acall.time)

\* Two selections in a row of one target are DwellTicks apart or more.
SelectionsApart ==
    \A i \in 1..(Len(assess.events) - 1) :
        assess.events[i].target_id = assess.events[i + 1].target_id =>
            assess.events[i + 1].timestamp - assess.events[i].timestamp >= DwellTicks

\* C28: in an assessment session a selection of a target is recorded only
\* in a frame whose gaze point is on the target, when the gaze was on it in
\* every processed frame since the dwell timer was last started and
\* dwell_threshold has passed since; a frame with the gaze elsewhere
\* restarts the timer without selecting, a selection restarts it, and two
\* consecutive selections of one target are dwell_threshold apart or more.
C28_SelectionOnlyAfterDwell ==
    /\ TimerFollowsGaze
    /\ SelectionAfterDwell
    /\ OtherGazeRestartsTimer
    /\ SelectionsApart
    /\ Len(assess.selections) <= Len(assess.events)

\* One target was selected twice in a row.
C28_SelectedTwiceInARow ==
    /\ IterationProcessed
    /\ acall.selected
    /\ Len(assess.events) >= 2
    /\ assess.events[Len(assess.events) - 1].target_id = acall.gazed

\* The calibrator of vat holds a fitted or loaded model.
HasModel(v) == v.calibrator.some /\ v.calibrator.v.transform_matrix.some

\* The model of calibrator t applied to gaze g: the dot products of the
\* coefficient vectors with the feature row of the mode, truncated and
\* clamped to the screen.
ModelApplied(t, g) ==
    <<Max(0, Min(t.screen_width - 1,
                 TruncDiv(Dot(t.transform_x.v, GazeFeatures(t.mode, g)), ONE))),
      Max(0, Min(t.screen_height - 1,
                 TruncDiv(Dot(t.transform_y.v, GazeFeatures(t.mode, g)), ONE)))>>

\* C30: get_calibrated_screen_point returns nothing for a frame without a
\* combined gaze vector, gaze_to_screen(combined) of the calibrator (the
\* model applied, or the exception of gaze_to_screen) whenever the calibrator
\* holds a model, and the tracker's screen point otherwise; the targets are
\* hit-tested with the point returned.
C30_CalibratedPointWhenModel ==
    /\ IterationProcessed =>
        /\ ~gaze.combined_gaze.some => acall.point = None
        /\ (gaze.combined_gaze.some /\ HasModel(vat)) =>
               /\ GazeToScreen(vat.calibrator.v, gaze.combined_gaze.v).ok
               /\ acall.point = Some(GazeToScreen(vat.calibrator.v, gaze.combined_gaze.v).v)
               /\ acall.point = Some(ModelApplied(vat.calibrator.v, gaze.combined_gaze.v))
        /\ (gaze.combined_gaze.some /\ ~HasModel(vat)) => acall.point = gaze.screen_point
        /\ acall.gazed = IF acall.point.some
                         THEN CheckGazeOnTarget(AssessTargets, acall.point.v[1], acall.point.v[2])
                         ELSE NoTarget
    /\ acall.op = "raised" =>
        /\ gaze.combined_gaze.some
        /\ HasModel(vat)
        /\ ~GazeToScreen(vat.calibrator.v, gaze.combined_gaze.v).ok

\* With a loaded model the gaze was on a target that the tracker's own
\* screen point misses.
C30_CalibratedHitRawMiss ==
    /\ IterationProcessed
    /\ HasModel(vat)
    /\ acall.gazed # NoTarget
    /\ gaze.screen_point.some
    /\ CheckGazeOnTarget(AssessTargets, gaze.screen_point.v[1], gaze.screen_point.v[2]) = NoTarget

=============================================================================
